---- MODULE Spec2Model ----
(***************************************************************************)
(* A model of the Yori hexadecimal edit control, libwin/hexedit.c.         *)
(*                                                                         *)
(* The control structure YORI_WIN_CTRL_HEX_EDIT is the record HexEdit;     *)
(* every C function that reads or changes it is an operator taking the     *)
(* record (and the function's arguments) and returning the record as the   *)
(* function leaves it, or the values the function returns.  The event      *)
(* handler and the exported API are the actions.                           *)
(*                                                                         *)
(* HexEdit.Buffer holds the BufferValid meaningful bytes only.  The bytes  *)
(* of the allocation above BufferValid are never read back as data: both   *)
(* YoriWinHexEditEnsureBufferValid and YoriWinHexEditInsertSpaceInBuffer   *)
(* zero the bytes they make valid.                                         *)
(***************************************************************************)
EXTENDS Integers, Sequences, FiniteSets, TLC

VARIABLES
    HexEdit,    \* the YORI_WIN_CTRL_HEX_EDIT structure
    Start,      \* HexEdit as it was in the initial state
    Prev,       \* HexEdit as it was before the last event or call
    Log         \* the events and calls made so far, with what they returned

vars == <<HexEdit, Start, Prev, Log>>

\* ------------------------------------------------------------------------
\* Program constants
\* ------------------------------------------------------------------------

\* YORI_LIB_HEXDUMP_BYTES_PER_LINE, assigned to HexEdit->BytesPerLine by
\* YoriWinHexEditCreate; yorilib.h defines it as 16
YORI_LIB_HEXDUMP_BYTES_PER_LINE == 16

\* (DWORD)-1, the "to the end" dirty line and the length no allocation
\* reaches.  TLC's integers end at 2^31-1, so the all-ones value is held as
\* the largest integer TLC has; the model only compares line numbers and
\* buffer lengths with it.
DWORD_MAX == 2147483647

\* The number of bytes added to every reallocation of the buffer
BufferPadding == 16384

\* The number of values of a UCHAR
UCharRange == 256

CellTypeOffset == "Offset"
CellTypeWhitespace == "Whitespace"
CellTypeHexDigit == "HexDigit"
CellTypeCharValue == "CharValue"

\* ------------------------------------------------------------------------
\* Bounds of the model
\* ------------------------------------------------------------------------

\* The longest of the short buffers handed to the control
MaxData == 4

\* The most keys typed in one run of the editing specification
MaxKeys == 2

\* The longest buffer the paint specification draws the lines of
MaxPainted == 20

\* The last line of the buffer the viewport specification scrolls over
MaxViewLine == 4

\* The most calls the host makes in one run of the data specification
MaxCalls == 2

\* The most changes of the layout made in one run, and the largest buffer
\* offset the cursor starts on
MaxChanges == 2
MaxCursorByte == 17

\* The most events and calls made in one run of the control specification
MaxSteps == 3

\* The longest buffer walked with the Right arrow
MaxWalk == 17

\* The most bytes YoriWinHexEditEnsureBufferValid is asked to add
MaxGrow == 3

\* The largest buffer offset given to the coordinate functions
MaxOffset == 40

\* The client area of the control (the Size it was created with, less the
\* border): columns and rows
ClientWidth == 20
ClientHeight == 2

\* ------------------------------------------------------------------------
\* Coordinate model
\* ------------------------------------------------------------------------

Min(a, b) == IF a < b THEN a ELSE b

YoriWinHexEditLinesPopulated(h) ==
    (h.BufferValid + h.BytesPerLine - 1) \div h.BytesPerLine

YoriWinHexEditOffsetSizeInCells(h) ==
    IF h.OffsetWidth = 64 THEN 18
    ELSE IF h.OffsetWidth = 32 THEN 9
    ELSE 0

YoriWinHexEditGetCellsPerWord(h) ==
    IF h.BytesPerWord = 8 THEN h.BytesPerWord * 2 + 1 + 1
    ELSE h.BytesPerWord * 2 + 1

\* A variant that forgets the separator in the middle of an 8 byte word
GetCellIndexForBitShiftNoSeparator(h, BitShift) == BitShift \div 4

YoriWinHexEditGetCellIndexForBitShift(h, BitShift) ==
    IF BitShift >= 32 THEN BitShift \div 4 + 1 ELSE BitShift \div 4

\* The values YoriWinHexEditCellType returns and stores through its pointers
CellInfo(type, byteOffset, bitShift, beyond) ==
    [Type |-> type, ByteOffset |-> byteOffset, BitShift |-> bitShift,
     BeyondBufferEnd |-> beyond]

YoriWinHexEditCellType(h, LineIndex, CellOffset) ==
    LET LinesPopulated == YoriWinHexEditLinesPopulated(h)
        BytesThisLine ==
            IF LineIndex + 1 = LinesPopulated
            THEN h.BufferValid - LineIndex * h.BytesPerLine
            ELSE h.BytesPerLine
        OffsetInChars == YoriWinHexEditOffsetSizeInCells(h)
        CellsPerWord == YoriWinHexEditGetCellsPerWord(h)
        WordsPerLine == h.BytesPerLine \div h.BytesPerWord
        DataOffset ==
            IF OffsetInChars = 0 THEN CellOffset - OffsetInChars + 1
            ELSE CellOffset - OffsetInChars
        LocalByteOffset == (DataOffset \div CellsPerWord) * h.BytesPerWord
        ModValue == CellsPerWord - 1 - (DataOffset % CellsPerWord)
        LocalBitShift == IF ModValue > 8 THEN 4 * (ModValue - 1) ELSE 4 * ModValue
        CharOffset == DataOffset - WordsPerLine * CellsPerWord
    IN  IF OffsetInChars > 0 /\ CellOffset < OffsetInChars
        THEN CellInfo(CellTypeOffset, 0, 0, FALSE)
        ELSE IF OffsetInChars > 0 /\ CellOffset = OffsetInChars
        THEN CellInfo(CellTypeWhitespace, 0, 0, FALSE)
        ELSE IF DataOffset < WordsPerLine * CellsPerWord
        THEN IF DataOffset % CellsPerWord = 0
             THEN CellInfo(CellTypeWhitespace, 0, 0, FALSE)
             ELSE IF ModValue = 8
             THEN CellInfo(CellTypeWhitespace, 0, 0, FALSE)
             ELSE CellInfo(CellTypeHexDigit, LocalByteOffset, LocalBitShift,
                           LineIndex >= LinesPopulated
                             \/ LocalByteOffset + (LocalBitShift \div 8) >= BytesThisLine)
        ELSE IF CharOffset < 2
        THEN CellInfo(CellTypeWhitespace, 0, 0, FALSE)
        ELSE IF CharOffset - 2 >= h.BytesPerLine
        THEN CellInfo(CellTypeWhitespace, 0, 0, FALSE)
        ELSE CellInfo(CellTypeCharValue, CharOffset - 2, 0,
                      LineIndex >= LinesPopulated \/ CharOffset - 2 >= BytesThisLine)

\* A display cell: what the CellFrom... functions store through EndLine and
\* EndCharOffset
Cell(line, charOffset) == [Line |-> line, CharOffset |-> charOffset]

\* A variant that forgets the space after the offset column
CellFromCharBufferOffsetNoSpace(h, BufferOffset) ==
    Cell(BufferOffset \div h.BytesPerLine,
         YoriWinHexEditOffsetSizeInCells(h)
             + (h.BytesPerLine \div h.BytesPerWord) * YoriWinHexEditGetCellsPerWord(h)
             + 1 + (BufferOffset % h.BytesPerLine))

\* A variant that counts the column from the start of the buffer, not of the
\* line
CellFromCharBufferOffsetNoWrap(h, BufferOffset) ==
    Cell(BufferOffset \div h.BytesPerLine,
         (IF YoriWinHexEditOffsetSizeInCells(h) > 0
          THEN YoriWinHexEditOffsetSizeInCells(h) + 1 ELSE 0)
             + (h.BytesPerLine \div h.BytesPerWord) * YoriWinHexEditGetCellsPerWord(h)
             + 1 + BufferOffset)

YoriWinHexEditCellFromCharBufferOffset(h, BufferOffset) ==
    LET OffsetSize == YoriWinHexEditOffsetSizeInCells(h)
        OffsetInChars == IF OffsetSize > 0 THEN OffsetSize + 1 ELSE OffsetSize
        CellsPerWord == YoriWinHexEditGetCellsPerWord(h)
        WordsPerLine == h.BytesPerLine \div h.BytesPerWord
        LineByteOffset == BufferOffset % h.BytesPerLine
    IN  Cell(BufferOffset \div h.BytesPerLine,
             OffsetInChars + WordsPerLine * CellsPerWord + 1 + LineByteOffset)

YoriWinHexEditCellFromHexBufferOffset(h, BufferOffset, BitShift) ==
    LET OffsetInChars == YoriWinHexEditOffsetSizeInCells(h)
        MarginToRemove == IF OffsetInChars = 0 THEN 1 ELSE 0
        CellsPerWord == YoriWinHexEditGetCellsPerWord(h)
        LineByteOffset == BufferOffset % h.BytesPerLine
        LineCellOffset == (LineByteOffset + h.BytesPerWord - 1) \div h.BytesPerWord
        BitShiftCellIndex == YoriWinHexEditGetCellIndexForBitShift(h, BitShift)
    IN  Cell(BufferOffset \div h.BytesPerLine,
             OffsetInChars + ((LineCellOffset + 1) * CellsPerWord)
                 - BitShiftCellIndex - MarginToRemove - 1)

\* What YoriWinHexEditPreviousCellSameType and YoriWinHexEditNextCellSameType
\* return: FALSE, leaving EndLine and EndCharOffset as the caller had them,
\* or TRUE and the new cell
Moved(ok, cell) == [ok |-> ok, Line |-> cell.Line, CharOffset |-> cell.CharOffset]

YoriWinHexEditPreviousCellSameType(h, CellType, BufferOffset, BitShift, End) ==
    LET Unaligned == BufferOffset % h.BytesPerWord
        AlignedOffset == BufferOffset - Unaligned
        AlignedShift == BitShift + 8 * Unaligned
    IN  IF CellType # CellTypeHexDigit /\ CellType # CellTypeCharValue
        THEN Moved(FALSE, End)
        ELSE IF CellType = CellTypeCharValue
        THEN Moved(TRUE, YoriWinHexEditCellFromCharBufferOffset(h,
                 IF BufferOffset > 0 THEN BufferOffset - 1 ELSE BufferOffset))
        ELSE IF AlignedShift < h.BytesPerWord * 8 - 4
        THEN Moved(TRUE, YoriWinHexEditCellFromHexBufferOffset(h, AlignedOffset, AlignedShift + 4))
        ELSE IF AlignedOffset > 0
        THEN Moved(TRUE, YoriWinHexEditCellFromHexBufferOffset(h, AlignedOffset - h.BytesPerWord, 0))
        ELSE Moved(TRUE, YoriWinHexEditCellFromHexBufferOffset(h, AlignedOffset, AlignedShift))

\* A variant that reports the cell it was handed as the next one
NextCellSameTypeStays(h, CellType, BufferOffset, BitShift, End) == Moved(TRUE, End)

YoriWinHexEditNextCellSameType(h, CellType, BufferOffset, BitShift, End) ==
    LET Unaligned == BufferOffset % h.BytesPerWord
        AlignedOffset == BufferOffset - Unaligned
        AlignedShift == BitShift + 8 * Unaligned
    IN  IF CellType # CellTypeHexDigit /\ CellType # CellTypeCharValue
        THEN Moved(FALSE, End)
        ELSE IF CellType = CellTypeCharValue
        THEN Moved(TRUE, YoriWinHexEditCellFromCharBufferOffset(h, BufferOffset + 1))
        ELSE IF AlignedShift >= 4
        THEN Moved(TRUE, YoriWinHexEditCellFromHexBufferOffset(h, AlignedOffset, AlignedShift - 4))
        ELSE Moved(TRUE, YoriWinHexEditCellFromHexBufferOffset(h,
                 BufferOffset + h.BytesPerWord, 8 * h.BytesPerWord - 4))

\* ------------------------------------------------------------------------
\* Display: the dirty range, the paint pass and the viewport
\* ------------------------------------------------------------------------

YoriWinHexEditExpandDirtyRange(h, NewFirstDirtyLine, NewLastDirtyLine) ==
    [h EXCEPT
        !.FirstDirtyLine = IF NewFirstDirtyLine < @ THEN NewFirstDirtyLine ELSE @,
        !.LastDirtyLine = IF NewLastDirtyLine > @ THEN NewLastDirtyLine ELSE @]

\* The cursor shape YoriWinHexEditPaint decides on: 0 hidden, 20 insert,
\* 50 overwrite
NewPercentCursorVisible(h) ==
    IF h.CursorLine < h.ViewportTop \/ h.CursorLine >= h.ViewportTop + ClientHeight
    THEN 0
    ELSE IF h.CursorOffset < h.ViewportLeft \/ h.CursorOffset >= h.ViewportLeft + ClientWidth
    THEN 0
    ELSE IF ~h.HasFocus THEN 0
    ELSE IF h.InsertMode THEN 20
    ELSE 50

YoriWinHexEditSelectionActive(h) == h.Selection.Active

\* The colour YoriWinHexEditSelectionColor returns for the cell of the byte at
\* Offset: TRUE when the text attributes are inverted (the byte is shown
\* selected), FALSE when they are the window's
YoriWinHexEditSelectionColor(h, Offset, PaddingAfter) ==
    IF ~h.Selection.Active THEN FALSE
    ELSE IF Offset >= h.Selection.FirstByteOffset /\ Offset <= h.Selection.LastByteOffset
    THEN ~(PaddingAfter /\ Offset = h.Selection.LastByteOffset)
    ELSE FALSE

\* What YoriWinHexEditPaintSingleLine draws in the row of line LineIndex, as
\* the values the cells of the row are made from: the offset shown, the
\* layout, the bytes of the line, the bytes shown selected (Selected) and the
\* bytes whose padding is shown selected (Padding), and the first column
\* shown.  A line past the data, other than line 0, is drawn blank.
Row(blank, offset, offsetWidth, bytesPerWord, bytes, selected, padding, viewportLeft) ==
    [Painted |-> TRUE, Blank |-> blank, Offset |-> offset, OffsetWidth |-> offsetWidth,
     BytesPerWord |-> bytesPerWord, Bytes |-> bytes, Selected |-> selected,
     Padding |-> padding, ViewportLeft |-> viewportLeft]

\* A row of the client area nothing was drawn in yet
Unpainted == [Row(TRUE, 0, 0, 0, <<>>, {}, {}, 0) EXCEPT !.Painted = FALSE]

YoriWinHexEditPaintSingleLine(h, LineIndex) ==
    LET Offset == LineIndex * h.BytesPerLine
        LineLength == IF h.BufferValid - Offset < h.BytesPerLine
                      THEN h.BufferValid - Offset
                      ELSE h.BytesPerLine
        Columns == 0..(h.BytesPerLine - 1)
    IN  IF LineIndex = 0 \/ LineIndex < YoriWinHexEditLinesPopulated(h)
        THEN Row(FALSE, IF h.OffsetWidth = 0 THEN 0 ELSE Offset, h.OffsetWidth,
                 h.BytesPerWord, SubSeq(h.Buffer, Offset + 1, Offset + LineLength),
                 {i \in Columns : YoriWinHexEditSelectionColor(h, Offset + i, FALSE)},
                 {i \in Columns : i < LineLength
                                    /\ YoriWinHexEditSelectionColor(h, Offset + i, TRUE)},
                 h.ViewportLeft)
        ELSE Row(TRUE, 0, 0, 0, <<>>, {}, {}, 0)

\* Screen is the client area as it was last drawn, row by row; Paints counts
\* the paint passes of the current event
YoriWinHexEditPaint(h) ==
    LET Drawn == IF h.FirstDirtyLine <= h.LastDirtyLine
                 THEN [h EXCEPT !.FirstDirtyLine = DWORD_MAX, !.LastDirtyLine = 0,
                                !.Screen = [RowIndex \in 0..(ClientHeight - 1) |->
                                    IF h.ViewportTop + RowIndex >= h.FirstDirtyLine
                                         /\ h.ViewportTop + RowIndex <= h.LastDirtyLine
                                    THEN YoriWinHexEditPaintSingleLine(h, h.ViewportTop + RowIndex)
                                    ELSE h.Screen[RowIndex]]]
                 ELSE h
    IN  [Drawn EXCEPT !.PercentCursorVisibleLastPaint = NewPercentCursorVisible(h),
                      !.Paints = @ + 1]

\* No function: the value of a callback pointer that was never set
NULL == "NULL"

\* A variant that calls the callback with the cell the cursor is leaving
SetCursorLocationInternalOldCell(h, NewCursorOffset, NewCursorLine) ==
    LET ct == YoriWinHexEditCellType(h, h.CursorLine, h.CursorOffset)
    IN  IF NewCursorOffset = h.CursorOffset /\ NewCursorLine = h.CursorLine
        THEN h
        ELSE [h EXCEPT !.CursorOffset = NewCursorOffset,
                       !.CursorLine = NewCursorLine,
                       !.LastNotify =
                           IF h.CursorMoveCallback # NULL
                           THEN [Calls |-> @.Calls + 1,
                                 Callback |-> h.CursorMoveCallback,
                                 BufferOffset |-> h.CursorLine * h.BytesPerLine + ct.ByteOffset,
                                 BitShift |-> ct.BitShift]
                           ELSE @]

\* The cursor move callback is the host's; the model keeps in LastNotify
\* which function was last called, what it was called with and how often
\* the callback was called in the current event
YoriWinHexEditSetCursorLocationInternal(h, NewCursorOffset, NewCursorLine) ==
    LET ct == YoriWinHexEditCellType(h, NewCursorLine, NewCursorOffset)
        Notified ==
            IF h.CursorMoveCallback # NULL
                 /\ (ct.Type = CellTypeHexDigit \/ ct.Type = CellTypeCharValue)
            THEN [h EXCEPT !.LastNotify =
                     [Calls |-> @.Calls + 1,
                      Callback |-> h.CursorMoveCallback,
                      BufferOffset |-> NewCursorLine * h.BytesPerLine + ct.ByteOffset,
                      BitShift |-> ct.BitShift]]
            ELSE h
    IN  IF NewCursorOffset = h.CursorOffset /\ NewCursorLine = h.CursorLine
        THEN h
        ELSE [Notified EXCEPT !.CursorOffset = NewCursorOffset,
                              !.CursorLine = NewCursorLine]

\* A variant that lets the cursor rest one cell past the right and the
\* bottom edge of the viewport
EnsureCursorVisiblePastEdge(h) ==
    [h EXCEPT
        !.ViewportLeft = IF h.CursorOffset < @ THEN h.CursorOffset
                         ELSE IF h.CursorOffset > @ + ClientWidth
                         THEN h.CursorOffset - ClientWidth + 1
                         ELSE @,
        !.ViewportTop = IF h.CursorLine < @ THEN h.CursorLine
                        ELSE IF h.CursorLine > @ + ClientHeight
                        THEN h.CursorLine - ClientHeight + 1
                        ELSE @,
        !.FirstDirtyLine = 0,
        !.LastDirtyLine = DWORD_MAX]

YoriWinHexEditEnsureCursorVisible(h) ==
    LET NewViewportLeft ==
            IF h.CursorOffset < h.ViewportLeft THEN h.CursorOffset
            ELSE IF h.CursorOffset >= h.ViewportLeft + ClientWidth
            THEN h.CursorOffset - ClientWidth + 1
            ELSE h.ViewportLeft
        NewViewportTop ==
            IF h.CursorLine < h.ViewportTop THEN h.CursorLine
            ELSE IF h.CursorLine >= h.ViewportTop + ClientHeight
            THEN h.CursorLine - ClientHeight + 1
            ELSE h.ViewportTop
        h1 == IF NewViewportTop # h.ViewportTop
              THEN YoriWinHexEditExpandDirtyRange(
                       [h EXCEPT !.ViewportTop = NewViewportTop], NewViewportTop, DWORD_MAX)
              ELSE h
    IN  IF NewViewportLeft # h1.ViewportLeft
        THEN YoriWinHexEditExpandDirtyRange(
                 [h1 EXCEPT !.ViewportLeft = NewViewportLeft], NewViewportTop, DWORD_MAX)
        ELSE h1

\* The record a function returning BOOLEAN and changing the control yields
Ret(ok, h) == [ok |-> ok, h |-> h]

YoriWinHexEditSetCursorToBufferLocation(h, CellType, BufferOffset, BitShift) ==
    LET New == IF CellType = CellTypeHexDigit
               THEN YoriWinHexEditCellFromHexBufferOffset(h, BufferOffset, BitShift)
               ELSE YoriWinHexEditCellFromCharBufferOffset(h, BufferOffset)
    IN  IF New.Line # h.CursorLine \/ New.CharOffset # h.CursorOffset
        THEN Ret(TRUE, YoriWinHexEditPaint(YoriWinHexEditEnsureCursorVisible(
                 YoriWinHexEditSetCursorLocationInternal(h, New.CharOffset, New.Line))))
        ELSE Ret(FALSE, h)

YoriWinHexEditSetCursorLocationToZero(h) ==
    YoriWinHexEditSetCursorToBufferLocation(h, CellTypeHexDigit, 0, h.BytesPerWord * 8 - 4)

YoriWinHexEditToggleInsert(h) == [h EXCEPT !.InsertMode = ~@]

\* ------------------------------------------------------------------------
\* Buffer store
\* ------------------------------------------------------------------------

Zeroes(n) == [i \in 1..n |-> 0]

\* A write through Buffer at Offset.  A write at or above BufferValid does not
\* change the valid bytes; Stray records it: through a NULL Buffer ("null"),
\* at or above BufferAllocated ("overrun"), or into the allocated bytes that
\* are not valid ("slack").
NoStray == [Kind |-> "none", Offset |-> 0]

WriteByte(h, Offset, Value) ==
    IF Offset < h.BufferValid
    THEN [h EXCEPT !.Buffer[Offset + 1] = Value]
    ELSE [h EXCEPT !.Stray =
             [Kind |-> IF h.BufferIsNull THEN "null"
                       ELSE IF Offset >= h.BufferAllocated THEN "overrun"
                       ELSE "slack",
              Offset |-> Offset]]

\* The byte read through Buffer at Offset; above BufferValid the byte is not
\* data of the control, and whatever is read there is only ever written back
\* above BufferValid
ReadByte(h, Offset) == IF Offset < h.BufferValid THEN h.Buffer[Offset + 1] ELSE 0

\* A variant that allocates the bytes asked for and none to spare
EnsureBufferLengthExact(h, NewBufferLength, MallocOk) ==
    IF h.BufferAllocated >= NewBufferLength THEN Ret(TRUE, h)
    ELSE IF NewBufferLength >= DWORD_MAX \/ ~MallocOk THEN Ret(FALSE, h)
    ELSE Ret(TRUE, [h EXCEPT !.BufferIsNull = FALSE, !.BufferAllocated = NewBufferLength])

\* A variant that never finds memory
EnsureBufferLengthFails(h, NewBufferLength, MallocOk) ==
    Ret(h.BufferAllocated >= NewBufferLength, h)

\* A variant that reports room for the bytes without allocating any
EnsureBufferLengthNoGrow(h, NewBufferLength, MallocOk) == Ret(TRUE, h)

\* MallocOk: whether YoriLibReferencedMalloc returns memory in this call
YoriWinHexEditEnsureBufferLength(h, NewBufferLength, MallocOk) ==
    IF h.BufferAllocated >= NewBufferLength THEN Ret(TRUE, h)
    ELSE IF NewBufferLength < h.BufferValid THEN Ret(FALSE, h)
    ELSE IF NewBufferLength + BufferPadding >= DWORD_MAX THEN Ret(FALSE, h)
    ELSE IF ~MallocOk THEN Ret(FALSE, h)
    ELSE Ret(TRUE, [h EXCEPT !.BufferIsNull = FALSE,
                             !.BufferAllocated = NewBufferLength + BufferPadding])

\* A variant that marks one byte too many valid
EnsureBufferValidOneMore(h, NewBufferLength, MallocOk) ==
    IF NewBufferLength <= h.BufferValid \/ ~MallocOk THEN Ret(MallocOk, h)
    ELSE Ret(TRUE, [h EXCEPT
             !.Buffer = h.Buffer \o Zeroes(NewBufferLength + 1 - h.BufferValid),
             !.BufferValid = NewBufferLength + 1,
             !.BufferIsNull = FALSE,
             !.BufferAllocated = NewBufferLength + 1 + BufferPadding])

YoriWinHexEditEnsureBufferValid(h, NewBufferLength, MallocOk) ==
    LET Grown == YoriWinHexEditEnsureBufferLength(h, NewBufferLength, MallocOk)
    IN  IF NewBufferLength <= h.BufferValid THEN Ret(TRUE, h)
        ELSE IF ~Grown.ok THEN Ret(FALSE, h)
        ELSE Ret(TRUE, [Grown.h EXCEPT
                 !.Buffer = h.Buffer \o Zeroes(NewBufferLength - h.BufferValid),
                 !.BufferValid = NewBufferLength])

\* A variant that moves the data but does not count the new bytes as valid
InsertSpaceInBufferNotCounted(h, BufferOffset, BytesToInsert, MallocOk) ==
    IF BufferOffset > h.BufferValid \/ ~MallocOk THEN Ret(FALSE, h)
    ELSE Ret(TRUE, [h EXCEPT
             !.BufferIsNull = FALSE,
             !.BufferAllocated = h.BufferValid + BytesToInsert + BufferPadding])

YoriWinHexEditInsertSpaceInBuffer(h, BufferOffset, BytesToInsert, MallocOk) ==
    LET Grown == YoriWinHexEditEnsureBufferLength(h, h.BufferValid + BytesToInsert, MallocOk)
    IN  IF BufferOffset > h.BufferValid THEN Ret(FALSE, h)
        ELSE IF ~Grown.ok THEN Ret(FALSE, h)
        ELSE Ret(TRUE, [Grown.h EXCEPT
                 !.Buffer = SubSeq(h.Buffer, 1, BufferOffset) \o Zeroes(BytesToInsert)
                              \o SubSeq(h.Buffer, BufferOffset + 1, h.BufferValid),
                 !.BufferValid = h.BufferValid + BytesToInsert])

\* ------------------------------------------------------------------------
\* Cell editor
\* ------------------------------------------------------------------------

YoriWinHexEditInputCharToByte(Char) == Char % UCharRange

\* YoriLibUpcaseChar on a byte
YoriLibUpcaseChar(c) == IF c >= 97 /\ c <= 122 THEN c - 32 ELSE c

\* The nibble an upcased input character stands for, or -1 when it is not a
\* hexadecimal digit
NewNibble(InputChar) ==
    IF InputChar >= 48 /\ InputChar <= 57 THEN InputChar - 48
    ELSE IF InputChar >= 65 /\ InputChar <= 70 THEN InputChar - 65 + 10
    ELSE -1

\* A variant that clears the other digit of the byte
ReplaceNibbleUnmasked(Byte, EditBitShift, Nibble) ==
    IF EditBitShift = 0 THEN Nibble ELSE Nibble * 16

\* (Byte & ~(0xF << EditBitShift)) | (Nibble << EditBitShift), for
\* EditBitShift 0 or 4
ReplaceNibble(Byte, EditBitShift, Nibble) ==
    IF EditBitShift = 0 THEN (Byte \div 16) * 16 + Nibble
    ELSE Nibble * 16 + (Byte % 16)

\* What the cell functions return: the control after the edit and the cell
\* stored through LastLine and LastCharOffset
Edited(h, line, charOffset) == [h |-> h, Line |-> line, CharOffset |-> charOffset]

EditedAt(h, cell) == Edited(h, cell.Line, cell.CharOffset)

\* YoriWinHexEditInsertCell is modelled in the order of its code: the cell
\* type and the extension of the buffer up to the cell (InsertCellAt), the
\* space made for the new word or byte (InsertCellExtended), the write
\* (InsertCellWrite), and the next cell and the dirty range (InsertCellFinish)
\* A variant that marks the edited line dirty and none after it
InsertCellFinishOneLine(h, FirstLine, FirstCharOffset, ct, BufferOffset, CellUpdated, DirtyLastLine) ==
    IF CellUpdated
    THEN EditedAt(YoriWinHexEditExpandDirtyRange([h EXCEPT !.UserModified = TRUE],
                                                 FirstLine, FirstLine),
                  YoriWinHexEditNextCellSameType(h, ct.Type, BufferOffset, ct.BitShift,
                                                 Cell(FirstLine, FirstCharOffset)))
    ELSE Edited(YoriWinHexEditExpandDirtyRange(h, FirstLine, FirstLine),
                FirstLine, FirstCharOffset)

InsertCellFinish(h, FirstLine, FirstCharOffset, ct, BufferOffset, CellUpdated, DirtyLastLine) ==
    IF CellUpdated
    THEN EditedAt(YoriWinHexEditExpandDirtyRange([h EXCEPT !.UserModified = TRUE],
                                                 FirstLine, DirtyLastLine),
                  YoriWinHexEditNextCellSameType(h, ct.Type, BufferOffset, ct.BitShift,
                                                 Cell(FirstLine, FirstCharOffset)))
    ELSE Edited(YoriWinHexEditExpandDirtyRange(h, FirstLine, DirtyLastLine),
                FirstLine, FirstCharOffset)

InsertCellWrite(h, FirstLine, FirstCharOffset, ct, BufferOffset, InputChar, Nibble, Space) ==
    LET EditBufferOffset == BufferOffset + ct.BitShift \div 8
        EditBitShift == ct.BitShift % 8
        FirstNibble == ct.BitShift = h.BytesPerWord * 8 - 4
        CellUpdated ==
            /\ Space.ok
            /\ \/ ct.Type = CellTypeHexDigit /\ Nibble >= 0
               \/ ct.Type = CellTypeCharValue
        DirtyLastLine ==
            IF ct.BeyondBufferEnd \/ (CellUpdated /\ (ct.Type = CellTypeCharValue \/ FirstNibble))
            THEN DWORD_MAX
            ELSE FirstLine
    IN  InsertCellFinish(
            IF ~CellUpdated THEN h
            ELSE WriteByte(Space.h, EditBufferOffset,
                     IF ct.Type = CellTypeHexDigit
                     THEN ReplaceNibble(ReadByte(Space.h, EditBufferOffset), EditBitShift, Nibble)
                     ELSE InputChar),
            FirstLine, FirstCharOffset, ct, BufferOffset, CellUpdated, DirtyLastLine)

InsertCellExtended(h, FirstLine, FirstCharOffset, Char, MallocOk, ct, BufferOffset, Extended) ==
    LET InputChar == YoriWinHexEditInputCharToByte(Char)
        Nibble == NewNibble(YoriLibUpcaseChar(InputChar))
        Hex == ct.Type = CellTypeHexDigit
        NeedSpace == \/ Hex /\ Nibble >= 0 /\ ct.BitShift = h.BytesPerWord * 8 - 4
                     \/ ct.Type = CellTypeCharValue
    IN  IF ~Extended.ok
        THEN Edited(h, FirstLine, FirstCharOffset)
        ELSE InsertCellWrite(Extended.h, FirstLine, FirstCharOffset, ct, BufferOffset,
                 InputChar, Nibble,
                 IF NeedSpace
                 THEN YoriWinHexEditInsertSpaceInBuffer(Extended.h,
                          IF Hex THEN BufferOffset ELSE BufferOffset + ct.BitShift \div 8,
                          IF Hex THEN h.BytesPerWord ELSE 1,
                          MallocOk)
                 ELSE Ret(TRUE, Extended.h))

InsertCellAt(h, FirstLine, FirstCharOffset, Char, MallocOk, ct) ==
    LET BufferOffset == FirstLine * h.BytesPerLine + ct.ByteOffset
    IN  InsertCellExtended(h, FirstLine, FirstCharOffset, Char, MallocOk, ct, BufferOffset,
            IF ct.BeyondBufferEnd /\ BufferOffset > h.BufferValid
            THEN YoriWinHexEditEnsureBufferValid(h, BufferOffset, MallocOk)
            ELSE Ret(TRUE, h))

YoriWinHexEditInsertCell(h, FirstLine, FirstCharOffset, Char, MallocOk) ==
    InsertCellAt(h, FirstLine, FirstCharOffset, Char, MallocOk,
                 YoriWinHexEditCellType(h, FirstLine, FirstCharOffset))

\* YoriWinHexEditOverwriteCell, in the order of its code: the cell type and
\* the character (OverwriteCellAt), the extension of the buffer and the write
\* (OverwriteCellWrite), the next cell (OverwriteCellFinish) and the dirty
\* range (OverwriteCellMoved)
OverwriteCellMoved(h, FirstLine, Next) ==
    Edited([YoriWinHexEditExpandDirtyRange(h, FirstLine, Next.Line)
               EXCEPT !.UserModified = TRUE],
           Next.Line, Next.CharOffset)

OverwriteCellFinish(h, FirstLine, FirstCharOffset, ct, BufferOffset) ==
    OverwriteCellMoved(h, FirstLine,
        YoriWinHexEditNextCellSameType(h, ct.Type, BufferOffset, ct.BitShift,
                                       Cell(FirstLine, FirstCharOffset)))

OverwriteCellWrite(h, FirstLine, FirstCharOffset, ct, BufferOffset, InputChar, Nibble, Extended) ==
    LET EditBufferOffset == BufferOffset + ct.BitShift \div 8
        EditBitShift == ct.BitShift % 8
    IN  IF ~Extended.ok
        THEN Edited(h, FirstLine, FirstCharOffset)
        ELSE OverwriteCellFinish(
                 WriteByte(Extended.h, EditBufferOffset,
                     IF ct.Type = CellTypeHexDigit
                     THEN ReplaceNibble(ReadByte(Extended.h, EditBufferOffset), EditBitShift, Nibble)
                     ELSE InputChar),
                 FirstLine, FirstCharOffset, ct, BufferOffset)

OverwriteCellAt(h, FirstLine, FirstCharOffset, Char, MallocOk, ct) ==
    LET BufferOffset == FirstLine * h.BytesPerLine + ct.ByteOffset
        InputChar == YoriWinHexEditInputCharToByte(Char)
        Nibble == NewNibble(YoriLibUpcaseChar(InputChar))
        Accepted == \/ ct.Type = CellTypeHexDigit /\ Nibble >= 0
                    \/ ct.Type = CellTypeCharValue
    IN  IF ~Accepted
        THEN Edited(h, FirstLine, FirstCharOffset)
        ELSE OverwriteCellWrite(h, FirstLine, FirstCharOffset, ct, BufferOffset, InputChar, Nibble,
                 IF ct.BeyondBufferEnd
                 THEN YoriWinHexEditEnsureBufferValid(h, BufferOffset + ct.BitShift \div 8 + 1, MallocOk)
                 ELSE Ret(TRUE, h))

YoriWinHexEditOverwriteCell(h, FirstLine, FirstCharOffset, Char, MallocOk) ==
    OverwriteCellAt(h, FirstLine, FirstCharOffset, Char, MallocOk,
                    YoriWinHexEditCellType(h, FirstLine, FirstCharOffset))

\* (UCHAR)(InputChar & ~(UCHAR)(0xF << BitShift)).  The constant 0xF is an
\* int: a shift by 8 to 28 leaves nothing in the low byte, and a shift by 32
\* or more is undefined; ShiftWraps says whether the build takes the shift
\* count modulo 32 (as the x86 shift instructions do) or yields nothing.
ClearNibble(Byte, BitShift, ShiftWraps) ==
    LET Shift == IF BitShift < 32 THEN BitShift
                 ELSE IF ShiftWraps THEN BitShift - 32
                 ELSE 8
    IN  IF Shift = 0 THEN (Byte \div 16) * 16
        ELSE IF Shift = 4 THEN Byte % 16
        ELSE Byte

\* A variant that removes a single byte whatever the size of the word
RemoveBytesOneOnly(h, BufferOffset, Count) ==
    [h EXCEPT !.Buffer = SubSeq(h.Buffer, 1, BufferOffset)
                             \o SubSeq(h.Buffer, BufferOffset + 2, h.BufferValid),
              !.BufferValid = h.BufferValid - 1]

\* The buffer with Count bytes removed at BufferOffset, as the memmove and
\* the new BufferValid of YoriWinHexEditDeleteCell leave it
RemoveBytes(h, BufferOffset, Count) ==
    LET BytesToCopy == h.BufferValid - BufferOffset
        Removed == IF BytesToCopy > Count THEN Count ELSE BytesToCopy
    IN  [h EXCEPT !.Buffer = SubSeq(h.Buffer, 1, BufferOffset)
                                 \o SubSeq(h.Buffer, BufferOffset + Removed + 1, h.BufferValid),
                  !.BufferValid = h.BufferValid - Removed]

\* YoriWinHexEditDeleteCell once the type of the cell is known
DeleteCellAt(h, FirstLine, FirstCharOffset, ShiftWraps, ct) ==
    LET BufferOffset == FirstLine * h.BytesPerLine + ct.ByteOffset
        Modified(g) == [g EXCEPT !.UserModified = TRUE]
    IN  IF ct.BeyondBufferEnd THEN Edited(h, FirstLine, FirstCharOffset)
        ELSE IF ct.Type = CellTypeHexDigit /\ ct.BitShift = 0
        THEN EditedAt(YoriWinHexEditExpandDirtyRange(
                          Modified(IF BufferOffset < h.BufferValid
                                   THEN RemoveBytes(h, BufferOffset, h.BytesPerWord)
                                   ELSE h),
                          FirstLine, DWORD_MAX),
                      YoriWinHexEditCellFromHexBufferOffset(h, BufferOffset,
                                                            h.BytesPerWord * 8 - 4))
        ELSE IF ct.Type = CellTypeHexDigit
        THEN EditedAt(YoriWinHexEditExpandDirtyRange(
                          Modified(WriteByte(h, BufferOffset,
                                       ClearNibble(ReadByte(h, BufferOffset), ct.BitShift,
                                                   ShiftWraps))),
                          FirstLine, FirstLine),
                      YoriWinHexEditNextCellSameType(h, ct.Type, BufferOffset, ct.BitShift,
                                                     Cell(FirstLine, FirstCharOffset)))
        ELSE IF ct.Type = CellTypeCharValue /\ BufferOffset < h.BufferValid
        THEN Edited(YoriWinHexEditExpandDirtyRange(
                        Modified(RemoveBytes(h, BufferOffset, 1)), FirstLine, DWORD_MAX),
                    FirstLine, FirstCharOffset)
        ELSE Edited(YoriWinHexEditExpandDirtyRange(h, FirstLine, FirstLine),
                    FirstLine, FirstCharOffset)

YoriWinHexEditDeleteCell(h, FirstLine, FirstCharOffset, ShiftWraps) ==
    DeleteCellAt(h, FirstLine, FirstCharOffset, ShiftWraps,
                 YoriWinHexEditCellType(h, FirstLine, FirstCharOffset))

\* The end of YoriWinHexEditAddChar: the cursor is put on the cell the edit
\* returned
AddCharMove(New) == YoriWinHexEditSetCursorLocationInternal(New.h, New.CharOffset, New.Line)

YoriWinHexEditAddChar(h, Char, MallocOk) ==
    AddCharMove(IF ~h.InsertMode
                THEN YoriWinHexEditOverwriteCell(h, h.CursorLine, h.CursorOffset, Char, MallocOk)
                ELSE YoriWinHexEditInsertCell(h, h.CursorLine, h.CursorOffset, Char, MallocOk))

\* ------------------------------------------------------------------------
\* Selection and data exchange
\* ------------------------------------------------------------------------

YoriWinHexEditClearSelection(h) ==
    IF ~h.Selection.Active THEN h
    ELSE YoriWinHexEditExpandDirtyRange(
             [h EXCEPT !.Selection.Active = FALSE],
             h.Selection.FirstByteOffset \div h.BytesPerLine,
             h.Selection.LastByteOffset \div h.BytesPerLine)

\* What YoriWinHexEditGetSelectedData returns: FALSE, or TRUE with the copy
\* stored through Data and its length stored through DataLength.  The copy
\* reads the Length bytes from FirstByteOffset on; bytes it reads at or above
\* BufferValid are not data of the control (Defined is FALSE).
Copied(ok, data, length, defined) ==
    [ok |-> ok, Data |-> data, DataLength |-> length, Defined |-> defined]

\* A variant that leaves out the last selected byte
GetSelectedDataShort(h, MallocOk) ==
    IF ~h.Selection.Active \/ ~MallocOk THEN Copied(FALSE, <<>>, 0, TRUE)
    ELSE Copied(TRUE, SubSeq(h.Buffer, h.Selection.FirstByteOffset + 1, h.Selection.LastByteOffset),
                h.Selection.LastByteOffset - h.Selection.FirstByteOffset, TRUE)

YoriWinHexEditGetSelectedData(h, MallocOk) ==
    LET Length == h.Selection.LastByteOffset - h.Selection.FirstByteOffset + 1
        Last == Min(h.Selection.LastByteOffset + 1, h.BufferValid)
    IN  IF ~h.Selection.Active THEN Copied(FALSE, <<>>, 0, TRUE)
        ELSE IF Length < 0 THEN Copied(FALSE, <<>>, 0, TRUE)
        ELSE IF ~MallocOk THEN Copied(FALSE, <<>>, 0, TRUE)
        ELSE Copied(TRUE, SubSeq(h.Buffer, h.Selection.FirstByteOffset + 1, Last),
                    Length, h.Selection.LastByteOffset < h.BufferValid)

YoriWinHexEditSetSelectionRange(h, FirstByteOffset, LastByteOffset) ==
    LET Cleared == YoriWinHexEditClearSelection(h)
        Activated == [Cleared EXCEPT !.Selection.Active = TRUE]
        Selected == [Activated EXCEPT !.Selection.FirstByteOffset = FirstByteOffset,
                                      !.Selection.LastByteOffset = LastByteOffset]
    IN  IF FirstByteOffset >= h.BufferValid \/ LastByteOffset >= h.BufferValid
        THEN Ret(FALSE, Activated)
        ELSE Ret(TRUE, YoriWinHexEditPaint(YoriWinHexEditExpandDirtyRange(Selected,
                           FirstByteOffset \div h.BytesPerLine,
                           LastByteOffset \div h.BytesPerLine)))

YoriWinHexEditSetDataNoCopy(h, NewBuffer, NewBufferAllocated, NewBufferValid) ==
    YoriWinHexEditPaint(YoriWinHexEditExpandDirtyRange(
        [h EXCEPT !.Buffer = SubSeq(NewBuffer, 1, NewBufferValid),
                  !.BufferIsNull = FALSE,
                  !.BufferAllocated = NewBufferAllocated,
                  !.BufferValid = NewBufferValid],
        0, DWORD_MAX))

\* A variant that removes the bytes from the front of the buffer
DeleteDataFromFront(h, DataOffset, Length) ==
    IF DataOffset >= h.BufferValid THEN Ret(FALSE, h)
    ELSE Ret(TRUE, [h EXCEPT
             !.Buffer = SubSeq(h.Buffer, Min(Length, h.BufferValid) + 1, h.BufferValid),
             !.BufferValid = h.BufferValid - Min(Length, h.BufferValid)])

\* A variant that removes everything from DataOffset to the end of the data
DeleteDataToEnd(h, DataOffset, Length) ==
    IF DataOffset >= h.BufferValid THEN Ret(FALSE, h)
    ELSE Ret(TRUE, [h EXCEPT !.Buffer = SubSeq(h.Buffer, 1, DataOffset),
                             !.BufferValid = DataOffset])

YoriWinHexEditDeleteData(h, DataOffset, Length) ==
    LET LengthToRemove == IF DataOffset + Length > h.BufferValid
                          THEN h.BufferValid - DataOffset
                          ELSE Length
    IN  IF DataOffset >= h.BufferValid THEN Ret(FALSE, h)
        ELSE Ret(TRUE, YoriWinHexEditExpandDirtyRange(
                 [h EXCEPT !.Buffer = SubSeq(h.Buffer, 1, DataOffset)
                                \o SubSeq(h.Buffer, DataOffset + LengthToRemove + 1, h.BufferValid),
                           !.BufferValid = h.BufferValid - LengthToRemove],
                 DataOffset \div h.BytesPerLine, DWORD_MAX))

YoriWinHexEditSetCursorLocation(h, AsChar, BufferOffset, BitShift) ==
    YoriWinHexEditSetCursorToBufferLocation(h,
        IF AsChar THEN CellTypeCharValue ELSE CellTypeHexDigit, BufferOffset, BitShift)

\* ------------------------------------------------------------------------
\* Input handling
\* ------------------------------------------------------------------------

\* YoriWinHexEditDeleteCell always returns TRUE, so YoriWinHexEditDelete
\* always moves the cursor to the cell it returned
YoriWinHexEditDelete(h, ShiftWraps) ==
    AddCharMove(YoriWinHexEditDeleteCell(h, h.CursorLine, h.CursorOffset, ShiftWraps))

YoriWinHexEditPageUp(h) ==
    LET NewCursorLine == IF h.CursorLine >= ClientHeight THEN h.CursorLine - ClientHeight ELSE 0
        NewViewportTop == IF h.ViewportTop >= ClientHeight THEN h.ViewportTop - ClientHeight ELSE 0
    IN  IF h.CursorLine > 0
        THEN Ret(TRUE, YoriWinHexEditSetCursorLocationInternal(
                 YoriWinHexEditExpandDirtyRange([h EXCEPT !.ViewportTop = NewViewportTop],
                                                NewViewportTop, DWORD_MAX),
                 h.CursorOffset, NewCursorLine))
        ELSE Ret(FALSE, h)

\* A variant that moves the cursor a screen down without stopping at the
\* last line
PageDownPastEnd(h) ==
    LET NewViewportTop == h.ViewportTop + ClientHeight
    IN  IF h.ViewportTop + ClientHeight < YoriWinHexEditLinesPopulated(h)
        THEN Ret(TRUE, YoriWinHexEditSetCursorLocationInternal(
                 YoriWinHexEditExpandDirtyRange([h EXCEPT !.ViewportTop = NewViewportTop],
                                                NewViewportTop, DWORD_MAX),
                 h.CursorOffset, h.CursorLine + ClientHeight))
        ELSE Ret(FALSE, h)

YoriWinHexEditPageDown(h) ==
    LET LinesPopulated == YoriWinHexEditLinesPopulated(h)
        NewViewportTop == h.ViewportTop + ClientHeight
        NewCursorLine == IF h.CursorLine + ClientHeight < LinesPopulated
                         THEN h.CursorLine + ClientHeight
                         ELSE IF h.CursorLine + 1 < LinesPopulated
                         THEN LinesPopulated - 1
                         ELSE h.CursorLine
    IN  IF h.ViewportTop + ClientHeight < LinesPopulated
        THEN Ret(TRUE, YoriWinHexEditSetCursorLocationInternal(
                 YoriWinHexEditExpandDirtyRange([h EXCEPT !.ViewportTop = NewViewportTop],
                                                NewViewportTop, DWORD_MAX),
                 h.CursorOffset, NewCursorLine))
        ELSE Ret(FALSE, h)

YoriWinHexEditSetViewportLocation(h, NewViewportLeft, NewViewportTop) ==
    LET LinesPopulated == YoriWinHexEditLinesPopulated(h)
        EffectiveNewViewportTop ==
            IF NewViewportTop > LinesPopulated
            THEN IF LinesPopulated > 0 THEN LinesPopulated - 1 ELSE 0
            ELSE NewViewportTop
        h1 == IF EffectiveNewViewportTop # h.ViewportTop
              THEN [YoriWinHexEditExpandDirtyRange(h, EffectiveNewViewportTop, DWORD_MAX)
                       EXCEPT !.ViewportTop = EffectiveNewViewportTop]
              ELSE h
        h2 == IF NewViewportLeft # h.ViewportLeft
              THEN [YoriWinHexEditExpandDirtyRange(h1, EffectiveNewViewportTop, DWORD_MAX)
                       EXCEPT !.ViewportLeft = NewViewportLeft]
              ELSE h1
    IN  YoriWinHexEditPaint(h2)

YoriWinHexEditNotifyMouseWheel(h, LinesToMove, MoveUp) ==
    LET LinesPopulated == YoriWinHexEditLinesPopulated(h)
        NewViewportTop ==
            IF MoveUp
            THEN IF h.ViewportTop < LinesToMove THEN 0 ELSE h.ViewportTop - LinesToMove
            ELSE IF h.ViewportTop + LinesToMove + ClientHeight > LinesPopulated
            THEN IF LinesPopulated >= ClientHeight THEN LinesPopulated - ClientHeight ELSE 0
            ELSE h.ViewportTop + LinesToMove
    IN  YoriWinHexEditSetViewportLocation(h, h.ViewportLeft, NewViewportTop)

\* ScrollValue: the position YoriWinScrollBarGetPosition returns
\* A variant that takes the position of the scroll bar as the top of the
\* viewport without holding it a screen short of the end
NotifyScrollChangeUnclamped(h, ScrollValue) ==
    LET Scrolled == YoriWinHexEditExpandDirtyRange([h EXCEPT !.ViewportTop = ScrollValue],
                                                   ScrollValue, DWORD_MAX)
    IN  IF ScrollValue = h.ViewportTop THEN h
        ELSE YoriWinHexEditPaint(
                 IF h.CursorLine < ScrollValue
                 THEN YoriWinHexEditSetCursorLocationInternal(Scrolled, h.CursorOffset,
                                                              ScrollValue)
                 ELSE IF h.CursorLine >= ScrollValue + ClientHeight
                 THEN YoriWinHexEditSetCursorLocationInternal(Scrolled, h.CursorOffset,
                                                              ScrollValue + ClientHeight - 1)
                 ELSE Scrolled)

YoriWinHexEditNotifyScrollChange(h, ScrollValue) ==
    LET LinesPopulated == YoriWinHexEditLinesPopulated(h)
        NewViewportTop ==
            IF ScrollValue + ClientHeight > LinesPopulated
            THEN IF LinesPopulated >= ClientHeight THEN LinesPopulated - ClientHeight ELSE 0
            ELSE IF ScrollValue < LinesPopulated THEN ScrollValue
            ELSE h.ViewportTop
        Scrolled == YoriWinHexEditExpandDirtyRange([h EXCEPT !.ViewportTop = NewViewportTop],
                                                   NewViewportTop, DWORD_MAX)
    IN  IF NewViewportTop = h.ViewportTop THEN h
        ELSE YoriWinHexEditPaint(
                 IF h.CursorLine < NewViewportTop
                 THEN YoriWinHexEditSetCursorLocationInternal(Scrolled, h.CursorOffset,
                                                              NewViewportTop)
                 ELSE IF h.CursorLine >= NewViewportTop + ClientHeight
                 THEN YoriWinHexEditSetCursorLocationInternal(Scrolled, h.CursorOffset,
                                                              NewViewportTop + ClientHeight - 1)
                 ELSE Scrolled)

\* Uninit: what the uninitialised NewCursorLine and NewCursorOffset hold when
\* the cursor cell has no type to move along
YoriWinHexEditCursorRight(h, Uninit) ==
    LET ct == YoriWinHexEditCellType(h, h.CursorLine, h.CursorOffset)
        BufferOffset == h.CursorLine * h.BytesPerLine + ct.ByteOffset
        New == YoriWinHexEditNextCellSameType(h, ct.Type, BufferOffset, ct.BitShift, Uninit)
        nt == YoriWinHexEditCellType(h, New.Line, New.CharOffset)
        NewBufferOffset == h.CursorLine * h.BytesPerLine + nt.ByteOffset
    IN  IF BufferOffset >= h.BufferValid /\ NewBufferOffset > h.BufferValid
        THEN Ret(FALSE, h)
        ELSE Ret(TRUE, YoriWinHexEditPaint(YoriWinHexEditEnsureCursorVisible(
                 YoriWinHexEditSetCursorLocationInternal(
                     YoriWinHexEditClearSelection(h), New.CharOffset, New.Line))))

YoriWinHexEditCursorLeft(h, Uninit) ==
    LET ct == YoriWinHexEditCellType(h, h.CursorLine, h.CursorOffset)
        BufferOffset == h.CursorLine * h.BytesPerLine + ct.ByteOffset
        New == YoriWinHexEditPreviousCellSameType(h, ct.Type, BufferOffset, ct.BitShift, Uninit)
    IN  IF New.Line # h.CursorLine \/ New.CharOffset # h.CursorOffset
        THEN Ret(TRUE, YoriWinHexEditPaint(YoriWinHexEditEnsureCursorVisible(
                 YoriWinHexEditSetCursorLocationInternal(
                     YoriWinHexEditClearSelection(h), New.CharOffset, New.Line))))
        ELSE Ret(FALSE, h)

YoriWinHexEditCursorHome(h) ==
    LET ct == YoriWinHexEditCellType(h, h.CursorLine, h.CursorOffset)
        BufferOffset == h.CursorLine * h.BytesPerLine + ct.ByteOffset
    IN  YoriWinHexEditSetCursorToBufferLocation(YoriWinHexEditClearSelection(h), ct.Type,
            (BufferOffset \div h.BytesPerLine) * h.BytesPerLine,
            IF ct.Type = CellTypeHexDigit THEN h.BytesPerWord * 8 - 4 ELSE ct.BitShift)

YoriWinHexEditCursorEnd(h) ==
    LET ct == YoriWinHexEditCellType(h, h.CursorLine, h.CursorOffset)
        BufferOffset == h.CursorLine * h.BytesPerLine + ct.ByteOffset
        LineEnd == ((BufferOffset \div h.BytesPerLine) + 1) * h.BytesPerLine
        NewOffset == IF ct.Type = CellTypeHexDigit
                     THEN IF LineEnd - h.BytesPerWord > h.BufferValid
                          THEN (h.BufferValid \div h.BytesPerWord) * h.BytesPerWord
                          ELSE LineEnd - h.BytesPerWord
                     ELSE IF LineEnd - 1 > h.BufferValid THEN h.BufferValid
                          ELSE LineEnd - 1
    IN  YoriWinHexEditSetCursorToBufferLocation(YoriWinHexEditClearSelection(h), ct.Type,
                                                NewOffset, 0)

YoriWinHexEditCursorUp(h) ==
    LET ct == YoriWinHexEditCellType(h, h.CursorLine, h.CursorOffset)
    IN  IF h.CursorLine = 0 THEN Ret(FALSE, h)
        ELSE YoriWinHexEditSetCursorToBufferLocation(YoriWinHexEditClearSelection(h), ct.Type,
                 (h.CursorLine - 1) * h.BytesPerLine + ct.ByteOffset, ct.BitShift)

YoriWinHexEditCursorDown(h) ==
    LET ct == YoriWinHexEditCellType(h, h.CursorLine, h.CursorOffset)
        BufferOffset == (h.CursorLine + 1) * h.BytesPerLine + ct.ByteOffset
    IN  IF BufferOffset > h.BufferValid THEN Ret(FALSE, h)
        ELSE YoriWinHexEditSetCursorToBufferLocation(YoriWinHexEditClearSelection(h), ct.Type,
                                                     BufferOffset, ct.BitShift)

\* A variant that lands on the low nibble of the first word
CursorCtrlHomeLowNibble(h) ==
    LET ct == YoriWinHexEditCellType(h, h.CursorLine, h.CursorOffset)
    IN  YoriWinHexEditSetCursorToBufferLocation(YoriWinHexEditClearSelection(h), ct.Type, 0,
            IF ct.Type = CellTypeHexDigit THEN 0 ELSE ct.BitShift)

YoriWinHexEditCursorCtrlHome(h) ==
    LET ct == YoriWinHexEditCellType(h, h.CursorLine, h.CursorOffset)
    IN  YoriWinHexEditSetCursorToBufferLocation(YoriWinHexEditClearSelection(h), ct.Type, 0,
            IF ct.Type = CellTypeHexDigit THEN h.BytesPerWord * 8 - 4 ELSE ct.BitShift)

YoriWinHexEditCursorCtrlEnd(h) ==
    LET ct == YoriWinHexEditCellType(h, h.CursorLine, h.CursorOffset)
    IN  YoriWinHexEditSetCursorToBufferLocation(YoriWinHexEditClearSelection(h), ct.Type,
            IF ct.Type = CellTypeHexDigit
            THEN (h.BufferValid \div h.BytesPerWord) * h.BytesPerWord
            ELSE h.BufferValid,
            0)

\* YoriWinHexEditTranslateViewportCoordinatesToCursorCoordinates adds the
\* viewport origin to the client coordinates
YoriWinHexEditMouseDown(h, DisplayX, DisplayY) ==
    LET NewCursorLine == DisplayY + h.ViewportTop
        NewCursorChar == DisplayX + h.ViewportLeft
        ct == YoriWinHexEditCellType(h, NewCursorLine, NewCursorChar)
        BufferOffset == NewCursorLine * h.BytesPerLine + ct.ByteOffset
    IN  IF BufferOffset <= h.BufferValid
             /\ (ct.Type = CellTypeHexDigit \/ ct.Type = CellTypeCharValue)
        THEN YoriWinHexEditPaint(YoriWinHexEditEnsureCursorVisible(
                 YoriWinHexEditSetCursorLocationInternal(
                     YoriWinHexEditClearSelection(h), NewCursorChar, NewCursorLine)))
        ELSE h

YoriWinHexEditClear(h) ==
    YoriWinHexEditPaint(YoriWinHexEditSetCursorLocationToZero(
        YoriWinHexEditExpandDirtyRange(
            [h EXCEPT !.Buffer = <<>>, !.BufferIsNull = TRUE, !.BufferAllocated = 0,
                      !.BufferValid = 0, !.ViewportTop = 0, !.ViewportLeft = 0],
            0, DWORD_MAX)).h)

YoriWinHexEditSetCursorMoveNotifyCallback(h, NotifyCallback) ==
    IF h.CursorMoveCallback # NULL THEN Ret(FALSE, h)
    ELSE Ret(TRUE, [h EXCEPT !.CursorMoveCallback = NotifyCallback])

YoriWinHexEditSetModifyState(h, ModifyState) ==
    Ret(h.UserModified, [h EXCEPT !.UserModified = ModifyState])

YoriWinHexEditSetReadOnly(h, NewReadOnlyState) == [h EXCEPT !.ReadOnly = NewReadOnlyState]

\* The end of YoriWinHexEditSetBytesPerWord and YoriWinHexEditSetStyle: the
\* cursor is put back on the buffer location it had, in the new layout
Relaid(h) ==
    YoriWinHexEditPaint(YoriWinHexEditEnsureCursorVisible(
        YoriWinHexEditExpandDirtyRange(h, h.ViewportTop, DWORD_MAX)))

\* YoriWinHexEditSetBytesPerWord once the cell of the cursor is known
SetBytesPerWordAt(h, BytesPerWord, ct) ==
    LET BufferOffset == h.CursorLine * h.BytesPerLine + ct.ByteOffset
        Hex == ct.Type = CellTypeHexDigit
        Narrowed == Hex /\ ct.BitShift >= BytesPerWord * 8
        Widened == Hex /\ ~Narrowed /\ BufferOffset % BytesPerWord # 0
        Unaligned == IF Narrowed THEN ct.BitShift \div 8
                     ELSE IF Widened THEN BufferOffset % BytesPerWord
                     ELSE 0
    IN  Relaid(YoriWinHexEditSetCursorToBufferLocation(
                   [h EXCEPT !.BytesPerWord = BytesPerWord], ct.Type,
                   IF Narrowed THEN BufferOffset + Unaligned ELSE BufferOffset - Unaligned,
                   IF Narrowed THEN ct.BitShift - Unaligned * 8
                   ELSE ct.BitShift + 8 * Unaligned).h)

YoriWinHexEditSetBytesPerWord(h, BytesPerWord) ==
    IF BytesPerWord # 1 /\ BytesPerWord # 2 /\ BytesPerWord # 4 /\ BytesPerWord # 8
    THEN Ret(FALSE, h)
    ELSE Ret(TRUE, SetBytesPerWordAt(h, BytesPerWord,
                       YoriWinHexEditCellType(h, h.CursorLine, h.CursorOffset)))

\* The style flags YoriWinHexEditSetStyle knows, and one it does not
YORI_WIN_HEX_EDIT_STYLE_OFFSET == "OFFSET"
YORI_WIN_HEX_EDIT_STYLE_LARGE_OFFSET == "LARGE_OFFSET"
YORI_WIN_HEX_EDIT_STYLE_READ_ONLY == "READ_ONLY"

SetStyleAt(h, NewStyle, ct) ==
    Relaid(YoriWinHexEditSetCursorToBufferLocation(
               [h EXCEPT !.OffsetWidth =
                   IF YORI_WIN_HEX_EDIT_STYLE_OFFSET \in NewStyle THEN 32
                   ELSE IF YORI_WIN_HEX_EDIT_STYLE_LARGE_OFFSET \in NewStyle THEN 64
                   ELSE 0],
               ct.Type, h.CursorLine * h.BytesPerLine + ct.ByteOffset, ct.BitShift).h)

\* A variant that shows the offset column and leaves the cursor on the
\* column it was on
SetStyleKeepsColumn(h, NewStyle) ==
    IF NewStyle \ {YORI_WIN_HEX_EDIT_STYLE_OFFSET, YORI_WIN_HEX_EDIT_STYLE_LARGE_OFFSET} # {}
    THEN Ret(FALSE, h)
    ELSE IF NewStyle = {YORI_WIN_HEX_EDIT_STYLE_OFFSET, YORI_WIN_HEX_EDIT_STYLE_LARGE_OFFSET}
    THEN Ret(FALSE, h)
    ELSE Ret(TRUE, [h EXCEPT !.OffsetWidth =
                       IF YORI_WIN_HEX_EDIT_STYLE_OFFSET \in NewStyle THEN 32
                       ELSE IF YORI_WIN_HEX_EDIT_STYLE_LARGE_OFFSET \in NewStyle THEN 64
                       ELSE 0])

\* NewStyle: the set of the flags that are set
YoriWinHexEditSetStyle(h, NewStyle) ==
    IF NewStyle \ {YORI_WIN_HEX_EDIT_STYLE_OFFSET, YORI_WIN_HEX_EDIT_STYLE_LARGE_OFFSET} # {}
    THEN Ret(FALSE, h)
    ELSE IF NewStyle = {YORI_WIN_HEX_EDIT_STYLE_OFFSET, YORI_WIN_HEX_EDIT_STYLE_LARGE_OFFSET}
    THEN Ret(FALSE, h)
    ELSE Ret(TRUE, SetStyleAt(h, NewStyle,
                       YoriWinHexEditCellType(h, h.CursorLine, h.CursorOffset)))

\* The buffer with Data copied to DataOffset, as memmove leaves it
CopyIn(h, DataOffset, Data) ==
    [h EXCEPT !.Buffer = [i \in 1..Len(h.Buffer) |->
                             IF i > DataOffset /\ i <= DataOffset + Len(Data)
                             THEN Data[i - DataOffset]
                             ELSE h.Buffer[i]]]

YoriWinHexEditInsertData(h, DataOffset, Data, MallocOk) ==
    LET Space == YoriWinHexEditInsertSpaceInBuffer(h, DataOffset, Len(Data), MallocOk)
    IN  IF DataOffset >= h.BufferValid THEN Ret(FALSE, h)
        ELSE IF ~Space.ok THEN Ret(FALSE, h)
        ELSE Ret(TRUE, YoriWinHexEditExpandDirtyRange(CopyIn(Space.h, DataOffset, Data),
                           DataOffset \div h.BytesPerLine, DWORD_MAX))

\* A variant that writes past the valid data and counts the bytes as valid
ReplaceDataExtends(h, DataOffset, Data) ==
    IF DataOffset > h.BufferValid THEN Ret(FALSE, h)
    ELSE Ret(TRUE, [h EXCEPT
             !.Buffer = SubSeq(h.Buffer, 1, DataOffset) \o Data
                          \o SubSeq(h.Buffer, DataOffset + Len(Data) + 1, h.BufferValid),
             !.BufferValid = IF DataOffset + Len(Data) > h.BufferValid
                             THEN DataOffset + Len(Data) ELSE h.BufferValid])

YoriWinHexEditReplaceData(h, DataOffset, Data) ==
    IF DataOffset + Len(Data) > h.BufferValid THEN Ret(FALSE, h)
    ELSE Ret(TRUE, YoriWinHexEditExpandDirtyRange(CopyIn(h, DataOffset, Data),
                       DataOffset \div h.BytesPerLine,
                       (DataOffset + Len(Data)) \div h.BytesPerLine))

\* What YoriWinHexEditGetCursorLocation returns and stores through its
\* pointers; when it returns FALSE it stores nothing
Located(ok, asChar, bufferOffset, bitShift) ==
    [ok |-> ok, AsChar |-> asChar, BufferOffset |-> bufferOffset, BitShift |-> bitShift]

YoriWinHexEditGetCursorLocation(h) ==
    LET ct == YoriWinHexEditCellType(h, h.CursorLine, h.CursorOffset)
    IN  IF ct.Type = CellTypeHexDigit \/ ct.Type = CellTypeCharValue
        THEN Located(TRUE, ct.Type = CellTypeCharValue,
                     h.CursorLine * h.BytesPerLine + ct.ByteOffset, ct.BitShift)
        ELSE Located(FALSE, FALSE, 0, 0)

\* ------------------------------------------------------------------------
\* Construction
\* ------------------------------------------------------------------------

\* The structure after ZeroMemory and the assignments of YoriWinHexEditCreate,
\* before the cursor is placed
Zeroed(BytesPerWord, OffsetWidth, ReadOnly) ==
    [Buffer |-> <<>>, BufferIsNull |-> TRUE, BufferAllocated |-> 0, BufferValid |-> 0,
     BytesPerLine |-> YORI_LIB_HEXDUMP_BYTES_PER_LINE, BytesPerWord |-> BytesPerWord,
     ViewportTop |-> 0, ViewportLeft |-> 0, CursorLine |-> 0, CursorOffset |-> 0,
     FirstDirtyLine |-> 0, LastDirtyLine |-> 0,
     Selection |-> [Active |-> FALSE, FirstByteOffset |-> 0, LastByteOffset |-> 0],
     OffsetWidth |-> OffsetWidth, PercentCursorVisibleLastPaint |-> 0,
     InsertMode |-> FALSE, ReadOnly |-> ReadOnly, HasFocus |-> FALSE,
     UserModified |-> FALSE, CursorMoveCallback |-> NULL,
     LastNotify |-> [Calls |-> 0, Callback |-> NULL, BufferOffset |-> 0, BitShift |-> 0],
     Stray |-> NoStray,
     Screen |-> [RowIndex \in 0..(ClientHeight - 1) |-> Unpainted], Paints |-> 0]

YoriWinHexEditCreate(BytesPerWord, OffsetWidth, ReadOnly) ==
    YoriWinHexEditPaint(YoriWinHexEditExpandDirtyRange(
        YoriWinHexEditSetCursorLocationToZero(Zeroed(BytesPerWord, OffsetWidth, ReadOnly)).h,
        0, DWORD_MAX))

\* The YoriWinEventGetFocus case of YoriWinHexEditEventHandler
GetFocus(h) == YoriWinHexEditPaint([h EXCEPT !.HasFocus = TRUE])

\* A variant that toggles the insert mode of a read only control as well
KeyInsertUnguarded(h) == YoriWinHexEditPaint(YoriWinHexEditToggleInsert(h))

\* The VK_INSERT case of YoriWinHexEditProcessPossiblyEnhancedKey
KeyInsert(h) ==
    IF ~h.ReadOnly THEN YoriWinHexEditPaint(YoriWinHexEditToggleInsert(h)) ELSE h

\* The VK_RIGHT case of YoriWinHexEditProcessPossiblyEnhancedKey
KeyRight(h, Uninit) == YoriWinHexEditCursorRight(h, Uninit)

\* The YoriWinEventKeyDown case of YoriWinHexEditEventHandler for a key that
\* is no navigation key, pressed with no modifier or with Shift
KeyDownChar(h, Char, MallocOk) ==
    IF Char # 0 /\ Char # 9 /\ Char # 13 /\ Char # 8 /\ Char # 27 /\ Char # 10
         /\ ~h.ReadOnly
    THEN YoriWinHexEditPaint(YoriWinHexEditEnsureCursorVisible(
             YoriWinHexEditAddChar(YoriWinHexEditClearSelection(h), Char, MallocOk)))
    ELSE h

\* A variant that paints once for the focus and once more for the cursor
LoseFocusPaintsTwice(h) ==
    YoriWinHexEditPaint(YoriWinHexEditPaint([h EXCEPT !.HasFocus = FALSE]))

\* The YoriWinEventLoseFocus case of YoriWinHexEditEventHandler
LoseFocus(h) == YoriWinHexEditPaint([h EXCEPT !.HasFocus = FALSE])

\* A key event: the virtual key, the class of its CtrlMask, its character,
\* and what the handling of it meets: whether memory is found (MallocOk),
\* what a shift of an int by 32 or more yields (ShiftWraps) and what the
\* uninitialised locals hold (Uninit).  The classes of CtrlMask are the
\* branches of the YoriWinEventKeyDown case: "plain" (no modifier, Shift, or
\* AltGr), "ctrl", "alt", "enhanced" and "enhanced ctrl".
KeyEvent(VirtualKeyCode, CtrlMask, Char, MallocOk, ShiftWraps) ==
    [VirtualKeyCode |-> VirtualKeyCode, CtrlMask |-> CtrlMask, Char |-> Char,
     MallocOk |-> MallocOk, ShiftWraps |-> ShiftWraps, Uninit |-> Cell(0, 0)]

\* A function of the input handling that returns whether the cursor moved:
\* the event handler ignores what it returns
YoriWinHexEditProcessPossiblyEnhancedKey(h, Event) ==
    LET Key == Event.VirtualKeyCode
    IN  IF Key = "VK_LEFT" THEN Ret(TRUE, YoriWinHexEditCursorLeft(h, Event.Uninit).h)
        ELSE IF Key = "VK_RIGHT" THEN Ret(TRUE, KeyRight(h, Event.Uninit).h)
        ELSE IF Key = "VK_HOME" THEN Ret(TRUE, YoriWinHexEditCursorHome(h).h)
        ELSE IF Key = "VK_END" THEN Ret(TRUE, YoriWinHexEditCursorEnd(h).h)
        ELSE IF Key = "VK_INSERT" THEN Ret(TRUE, KeyInsert(h))
        ELSE IF Key = "VK_UP" THEN Ret(TRUE, YoriWinHexEditCursorUp(h).h)
        ELSE IF Key = "VK_DOWN" THEN Ret(TRUE, YoriWinHexEditCursorDown(h).h)
        ELSE IF Key = "VK_PRIOR"
        THEN Ret(TRUE, IF YoriWinHexEditPageUp(h).ok
                       THEN YoriWinHexEditPaint(YoriWinHexEditPageUp(h).h)
                       ELSE h)
        ELSE IF Key = "VK_NEXT"
        THEN Ret(TRUE, IF YoriWinHexEditPageDown(h).ok
                       THEN YoriWinHexEditPaint(YoriWinHexEditPageDown(h).h)
                       ELSE h)
        ELSE IF Key = "VK_DELETE"
        THEN Ret(TRUE, IF ~h.ReadOnly
                       THEN YoriWinHexEditPaint(YoriWinHexEditEnsureCursorVisible(
                                YoriWinHexEditDelete(h, Event.ShiftWraps)))
                       ELSE h)
        ELSE Ret(FALSE, h)

YoriWinHexEditProcessPossiblyEnhancedCtrlKey(h, Event) ==
    IF Event.VirtualKeyCode = "VK_HOME" THEN Ret(TRUE, YoriWinHexEditCursorCtrlHome(h).h)
    ELSE IF Event.VirtualKeyCode = "VK_END" THEN Ret(TRUE, YoriWinHexEditCursorCtrlEnd(h).h)
    ELSE Ret(FALSE, h)

\* The YoriWinEventKeyDown case of YoriWinHexEditEventHandler.  With Alt held
\* the key goes to YoriLibBuildNumericKey, which changes only the numeric key
\* being composed; the key up event that ends the composition is KeyUp.
KeyDown(h, Event) ==
    IF Event.CtrlMask = "plain"
    THEN IF YoriWinHexEditProcessPossiblyEnhancedKey(h, Event).ok
         THEN YoriWinHexEditProcessPossiblyEnhancedKey(h, Event).h
         ELSE KeyDownChar(h, Event.Char, Event.MallocOk)
    ELSE IF Event.CtrlMask = "ctrl" \/ Event.CtrlMask = "enhanced ctrl"
    THEN YoriWinHexEditProcessPossiblyEnhancedCtrlKey(h, Event).h
    ELSE IF Event.CtrlMask = "enhanced"
    THEN YoriWinHexEditProcessPossiblyEnhancedKey(h, Event).h
    ELSE h

\* The YoriWinEventKeyUp case of YoriWinHexEditEventHandler.  Numeric: no Alt
\* is in the CtrlMask, and a numeric key value was composed or the key is
\* VK_MENU with a character.
KeyUp(h, Numeric, Char, MallocOk) ==
    IF Numeric /\ ~h.ReadOnly
    THEN YoriWinHexEditPaint(YoriWinHexEditEnsureCursorVisible(
             YoriWinHexEditAddChar(YoriWinHexEditClearSelection(h), Char, MallocOk)))
    ELSE h

\* The mouse wheel cases of YoriWinHexEditEventHandler
MouseWheel(h, LinesToMove, MoveUp) == YoriWinHexEditNotifyMouseWheel(h, LinesToMove, MoveUp)

\* The YoriWinEventMouseDownInClient case of YoriWinHexEditEventHandler
MouseDownInClient(h, X, Y) == YoriWinHexEditMouseDown(h, X, Y)

\* ------------------------------------------------------------------------
\* The environment: what the host hands to the control
\* ------------------------------------------------------------------------

BytesPerWordValues == {1, 2, 4, 8}
OffsetWidthValues == {0, 32, 64}

\* The buffer the host loads: n bytes 00, 01, 02, ...
TestData(n) == [i \in 1..n |-> (i - 1) % UCharRange]

\* The characters typed: '4', 'f' and 'z'
InputChars == {52, 102, 122}

\* The bit shifts of the hex digits of a word
BitShifts(BytesPerWord) == {4 * i : i \in 0..(2 * BytesPerWord - 1)}

\* Before an event or call is handled: nothing written outside the valid
\* bytes, no cursor notification made and no paint pass run yet
Begin(h) == [h EXCEPT !.Stray = NoStray, !.LastNotify.Calls = 0, !.Paints = 0]

\* A control the host has created, given focus, loaded with Data (when it is
\* not empty), moved the cursor of, and switched to insert mode (when Insert)
Configured(BytesPerWord, OffsetWidth, Data, AsChar, BufferOffset, BitShift, Insert) ==
    LET Created == GetFocus(YoriWinHexEditCreate(BytesPerWord, OffsetWidth, FALSE))
        Loaded == IF Data = <<>> THEN Created
                  ELSE YoriWinHexEditSetDataNoCopy(Created, Data, Len(Data), Len(Data))
        Placed == YoriWinHexEditSetCursorLocation(Loaded, AsChar, BufferOffset, BitShift).h
    IN  Begin(IF Insert THEN KeyInsert(Placed) ELSE Placed)

Entry(type, arg, ret) == [Type |-> type, Arg |-> arg, Ret |-> ret]
Last == Log[Len(Log)]

\* ------------------------------------------------------------------------
\* SpecCoord: the coordinate functions applied to bounded inputs
\* ------------------------------------------------------------------------

InitCoord ==
    /\ \E bpw \in BytesPerWordValues, ow \in OffsetWidthValues :
           HexEdit = YoriWinHexEditCreate(bpw, ow, FALSE)
    /\ Start = HexEdit
    /\ Prev = HexEdit
    /\ Log = <<>>

CellFromHexBufferOffset ==
    \E BufferOffset \in 0..MaxOffset, BitShift \in BitShifts(HexEdit.BytesPerWord) :
        /\ BufferOffset % HexEdit.BytesPerWord = 0
        /\ Log' = <<Entry("CellFromHexBufferOffset",
                          [BufferOffset |-> BufferOffset, BitShift |-> BitShift],
                          YoriWinHexEditCellFromHexBufferOffset(HexEdit, BufferOffset, BitShift))>>
        /\ UNCHANGED <<HexEdit, Start, Prev>>

CellFromCharBufferOffset ==
    \E BufferOffset \in 0..MaxOffset :
        /\ Log' = <<Entry("CellFromCharBufferOffset",
                          [BufferOffset |-> BufferOffset],
                          YoriWinHexEditCellFromCharBufferOffset(HexEdit, BufferOffset))>>
        /\ UNCHANGED <<HexEdit, Start, Prev>>

NextCoord == CellFromHexBufferOffset \/ CellFromCharBufferOffset

SpecCoord == InitCoord /\ [][NextCoord]_vars

\* C4: for every bytesPerWord in {1,2,4,8}, every offsetWidth in {0,32,64},
\* every word-aligned buffer offset and every bit shift that is a multiple of
\* 4 within the word, classifying the cell that cellFromHexOffset returns
\* gives a HexDigit cell whose line * bytesPerLine + byteOffset is the buffer
\* offset and whose bit shift is the bit shift asked for.
C4_HexOffsetRoundTrip ==
    (Log # <<>> /\ Last.Type = "CellFromHexBufferOffset") =>
        LET Found == YoriWinHexEditCellType(HexEdit, Last.Ret.Line, Last.Ret.CharOffset)
        IN  /\ Found.Type = CellTypeHexDigit
            /\ Last.Ret.Line * HexEdit.BytesPerLine + Found.ByteOffset = Last.Arg.BufferOffset
            /\ Found.BitShift = Last.Arg.BitShift

\* The second digit of the second half of an 8 byte word, with the offset
\* column shown, on the third line
C4_Witness ==
    /\ Log # <<>>
    /\ Last.Type = "CellFromHexBufferOffset"
    /\ HexEdit.BytesPerWord = 8
    /\ HexEdit.OffsetWidth = 64
    /\ Last.Arg.BufferOffset = 40
    /\ Last.Arg.BitShift = 24
    /\ Last.Ret.Line = 2
    /\ YoriWinHexEditCellType(HexEdit, Last.Ret.Line, Last.Ret.CharOffset).Type = CellTypeHexDigit

\* C5: for the same parameters and every buffer offset, classifying the cell
\* that cellFromCharOffset returns gives a CharValue cell whose
\* line * bytesPerLine + byteOffset is the buffer offset, with bit shift 0.
C5_CharOffsetRoundTrip ==
    (Log # <<>> /\ Last.Type = "CellFromCharBufferOffset") =>
        LET Found == YoriWinHexEditCellType(HexEdit, Last.Ret.Line, Last.Ret.CharOffset)
        IN  /\ Found.Type = CellTypeCharValue
            /\ Last.Ret.Line * HexEdit.BytesPerLine + Found.ByteOffset = Last.Arg.BufferOffset
            /\ Found.BitShift = 0

\* The character of byte 37, with a 32 bit offset column and 2 byte words
C5_Witness ==
    /\ Log # <<>>
    /\ Last.Type = "CellFromCharBufferOffset"
    /\ HexEdit.BytesPerWord = 2
    /\ HexEdit.OffsetWidth = 32
    /\ Last.Arg.BufferOffset = 37
    /\ Last.Ret.Line = 2
    /\ YoriWinHexEditCellType(HexEdit, Last.Ret.Line, Last.Ret.CharOffset).ByteOffset = 5

\* ------------------------------------------------------------------------
\* SpecEdit: characters typed into a configured control
\* ------------------------------------------------------------------------

\* The lengths of the buffers loaded: the short ones, and those that end
\* next to the end of the first line
DataLengths ==
    (0..MaxData) \cup ((YORI_LIB_HEXDUMP_BYTES_PER_LINE - 1)..(YORI_LIB_HEXDUMP_BYTES_PER_LINE + 1))

\* The buffer offsets the cursor is put on in a buffer of n bytes: those
\* near the start of the buffer and those around and just after its end
CursorStops(n, BytesPerWord) ==
    {o \in 0..(n + BytesPerWord) : o <= MaxData \/ o + BytesPerWord >= n}

InitEdit ==
    /\ \E bpw \in BytesPerWordValues, ow \in OffsetWidthValues, n \in DataLengths,
          AsChar \in BOOLEAN, Insert \in BOOLEAN :
         \E BufferOffset \in CursorStops(n, bpw),
            BitShift \in (IF AsChar THEN {0} ELSE BitShifts(bpw)) :
             /\ AsChar \/ BufferOffset % bpw = 0
             /\ HexEdit = Configured(bpw, ow, TestData(n), AsChar, BufferOffset, BitShift, Insert)
    /\ Start = HexEdit
    /\ Prev = HexEdit
    /\ Log = <<>>

KeyChar ==
    \E Char \in InputChars, MallocOk \in BOOLEAN :
        /\ Len(Log) < MaxKeys
        /\ HexEdit' = KeyDownChar(Begin(HexEdit), Char, MallocOk)
        /\ Prev' = HexEdit
        /\ Log' = Append(Log, Entry("KeyChar", [Char |-> Char, MallocOk |-> MallocOk], TRUE))
        /\ UNCHANGED Start

NextEdit == KeyChar

SpecEdit == InitEdit /\ [][NextEdit]_vars

\* The value of a character that is a hexadecimal digit, -1 for any other
HexDigitValue(c) ==
    IF c >= 48 /\ c <= 57 THEN c - 48
    ELSE IF c >= 97 /\ c <= 102 THEN c - 87
    ELSE IF c >= 65 /\ c <= 70 THEN c - 55
    ELSE -1

\* An empty control with 1 byte words and no offset column, the cursor on
\* cell (0,0)
EmptyAtOrigin(h) ==
    /\ h.BytesPerWord = 1
    /\ h.OffsetWidth = 0
    /\ h.BufferValid = 0
    /\ h.CursorLine = 0
    /\ h.CursorOffset = 0

\* The cell under the cursor before the last key
PrevCell == YoriWinHexEditCellType(Prev, Prev.CursorLine, Prev.CursorOffset)
PrevCursor == YoriWinHexEditGetCursorLocation(Prev)

\* C1: with bytesPerLine 16, bytesPerWord 1, offsetWidth 0, an empty buffer
\* and overwrite mode, typing hex digits h then l with the cursor at (0,0)
\* leaves valid = 1, buffer[0] = 16h + l, and the cursor on the most
\* significant hex cell of byte 1.
C1_OverwriteTwoDigits ==
    (/\ Len(Log) = 2
     /\ Start.BytesPerLine = 16
     /\ EmptyAtOrigin(Start)
     /\ ~Start.InsertMode
     /\ HexDigitValue(Log[1].Arg.Char) >= 0
     /\ HexDigitValue(Log[2].Arg.Char) >= 0
     /\ Log[1].Arg.MallocOk)
    => /\ HexEdit.BufferValid = 1
       /\ HexEdit.Buffer = <<16 * HexDigitValue(Log[1].Arg.Char) + HexDigitValue(Log[2].Arg.Char)>>
       /\ YoriWinHexEditGetCursorLocation(HexEdit) = Located(TRUE, FALSE, 1, 4)

\* '4' then 'f' typed into the empty control in overwrite mode gave byte 4F
C1_Witness ==
    /\ Len(Log) = 2
    /\ EmptyAtOrigin(Start)
    /\ ~Start.InsertMode
    /\ Log[1].Arg.Char = 52
    /\ Log[2].Arg.Char = 102
    /\ Log[1].Arg.MallocOk
    /\ HexEdit.Buffer = <<79>>
    /\ HexEdit.CursorOffset = 3

\* C2: in the same configuration but in insert mode, after the first digit
\* valid = 1 and buffer[0] = 16h; after the second digit valid = 1 and
\* buffer[0] = 16h + l.
C2_InsertTwoDigits ==
    (/\ Len(Log) >= 1
     /\ Start.BytesPerLine = 16
     /\ EmptyAtOrigin(Start)
     /\ Start.InsertMode
     /\ HexDigitValue(Log[1].Arg.Char) >= 0
     /\ Log[1].Arg.MallocOk)
    => /\ Len(Log) = 1 =>
            /\ HexEdit.BufferValid = 1
            /\ HexEdit.Buffer = <<16 * HexDigitValue(Log[1].Arg.Char)>>
       /\ (Len(Log) = 2 /\ HexDigitValue(Log[2].Arg.Char) >= 0) =>
            /\ HexEdit.BufferValid = 1
            /\ HexEdit.Buffer = <<16 * HexDigitValue(Log[1].Arg.Char) + HexDigitValue(Log[2].Arg.Char)>>

\* 'f' then '4' typed into the empty control in insert mode: F0, then F4
C2_Witness ==
    /\ Len(Log) = 2
    /\ EmptyAtOrigin(Start)
    /\ Start.InsertMode
    /\ Log[1].Arg.Char = 102
    /\ Log[2].Arg.Char = 52
    /\ Log[1].Arg.MallocOk
    /\ Prev.Buffer = <<240>>
    /\ HexEdit.Buffer = <<244>>

\* C3: in insert mode with the cursor on the character cell of byte k
\* (k <= valid), typing a character c gives the buffer
\* old[0..k) ++ [c] ++ old[k..valid), valid grown by one, and the cursor on
\* the character cell of byte k + 1.
C3_InsertChar ==
    (/\ Len(Log) >= 1
     /\ Prev.InsertMode
     /\ PrevCursor.ok
     /\ PrevCursor.AsChar
     /\ PrevCursor.BufferOffset <= Prev.BufferValid
     /\ Last.Arg.MallocOk)
    => /\ HexEdit.Buffer = SubSeq(Prev.Buffer, 1, PrevCursor.BufferOffset)
                             \o <<Last.Arg.Char>>
                             \o SubSeq(Prev.Buffer, PrevCursor.BufferOffset + 1, Prev.BufferValid)
       /\ HexEdit.BufferValid = Prev.BufferValid + 1
       /\ Len(HexEdit.Buffer) = HexEdit.BufferValid
       /\ YoriWinHexEditGetCursorLocation(HexEdit)
            = Located(TRUE, TRUE, PrevCursor.BufferOffset + 1, 0)

\* 'z' inserted before byte 2 of 00 01 02 03
C3_Witness ==
    /\ Len(Log) = 1
    /\ Prev.InsertMode
    /\ PrevCursor = Located(TRUE, TRUE, 2, 0)
    /\ Prev.Buffer = <<0, 1, 2, 3>>
    /\ Last.Arg.Char = 122
    /\ HexEdit.Buffer = <<0, 1, 122, 2, 3>>
    /\ YoriWinHexEditGetCursorLocation(HexEdit).BufferOffset = 3

\* The byte the cell under the cursor before the last key stands for
PrevEditOffset == PrevCursor.BufferOffset + PrevCell.BitShift \div 8

\* The last key was a character the cell under the cursor takes: a hex digit
\* on a hex cell, any character on a character cell
LastAccepted ==
    \/ PrevCell.Type = CellTypeHexDigit /\ HexDigitValue(Last.Arg.Char) >= 0
    \/ PrevCell.Type = CellTypeCharValue

\* C7 as stated: typing any character in overwrite mode never changes valid,
\* whatever cell the cursor is on.
C7_OverwriteKeepsValid ==
    (Len(Log) >= 1 /\ ~Prev.InsertMode) => HexEdit.BufferValid = Prev.BufferValid

\* C7: typing any character in overwrite mode never changes valid when the
\* cursor is on a cell within the valid data; on a hex or character cell
\* beyond the end of the data, a character the cell takes extends valid to
\* the offset of the edited byte plus one when the buffer can be grown, and
\* valid never becomes anything else.
C7_OverwriteValid ==
    (Len(Log) >= 1 /\ ~Prev.InsertMode) =>
        /\ ~PrevCell.BeyondBufferEnd => HexEdit.BufferValid = Prev.BufferValid
        /\ (PrevCell.BeyondBufferEnd /\ LastAccepted /\ Last.Arg.MallocOk)
              => HexEdit.BufferValid = PrevEditOffset + 1
        /\ HexEdit.BufferValid \in {Prev.BufferValid, PrevEditOffset + 1}

\* '4' typed in overwrite mode on the low digit of the byte after the end of
\* 00 01 02 03
C7_Witness ==
    /\ Len(Log) = 1
    /\ ~Prev.InsertMode
    /\ Prev.BytesPerWord = 1
    /\ Prev.Buffer = <<0, 1, 2, 3>>
    /\ PrevCursor = Located(TRUE, FALSE, 4, 0)
    /\ PrevCell.BeyondBufferEnd
    /\ Last.Arg.Char = 52
    /\ HexEdit.Buffer = <<0, 1, 2, 3, 4>>

\* The cursor before the last key is on the first digit of its word
PrevFirstNibble == PrevCell.BitShift = Prev.BytesPerWord * 8 - 4

\* The last key was a hex digit typed in insert mode on a hex cell
LastInsertedDigit ==
    /\ Len(Log) >= 1
    /\ Prev.InsertMode
    /\ PrevCell.Type = CellTypeHexDigit
    /\ HexDigitValue(Last.Arg.Char) >= 0

\* C8 as stated: in insert mode, typing a hex digit changes valid by exactly
\* bytesPerWord when the cursor is on the first nibble of a word beyond the
\* current end, and leaves valid unchanged when the cursor is on any nibble of
\* a word that already exists.
C8_InsertOnlyGrowsAtEnd ==
    LastInsertedDigit =>
        /\ (PrevFirstNibble /\ PrevCursor.BufferOffset = Prev.BufferValid /\ Last.Arg.MallocOk)
              => HexEdit.BufferValid = Prev.BufferValid + Prev.BytesPerWord
        /\ PrevCursor.BufferOffset + Prev.BytesPerWord <= Prev.BufferValid
              => HexEdit.BufferValid = Prev.BufferValid

\* C8: in insert mode, typing a hex digit changes valid by exactly
\* bytesPerWord when the cursor is on the first nibble of a word that starts
\* at or before the current end of the data, whether the word exists or not
\* (and the buffer can be grown), and leaves valid unchanged when the cursor
\* is on any other nibble of such a word.
C8_InsertGrowsAtFirstNibble ==
    (LastInsertedDigit /\ PrevCursor.BufferOffset <= Prev.BufferValid) =>
        /\ (PrevFirstNibble /\ Last.Arg.MallocOk)
              => HexEdit.BufferValid = Prev.BufferValid + Prev.BytesPerWord
        /\ ~PrevFirstNibble => HexEdit.BufferValid = Prev.BufferValid

\* 'f' typed in insert mode on the first digit of the existing word at
\* offset 2 of 00 01 02 03, with 2 byte words
C8_Witness ==
    /\ Len(Log) = 1
    /\ LastInsertedDigit
    /\ Prev.BytesPerWord = 2
    /\ Prev.Buffer = <<0, 1, 2, 3>>
    /\ PrevCursor = Located(TRUE, FALSE, 2, 12)
    /\ Last.Arg.Char = 102
    /\ Last.Arg.MallocOk
    /\ HexEdit.BufferValid = 6
    /\ HexEdit.Buffer = <<0, 1, 0, 240, 2, 3>>

\* ------------------------------------------------------------------------
\* SpecWalk: the Right arrow pressed again and again from the first hex digit
\* ------------------------------------------------------------------------

InitWalk ==
    /\ \E bpw \in BytesPerWordValues, ow \in OffsetWidthValues, n \in 0..MaxWalk :
           HexEdit = Configured(bpw, ow, TestData(n), FALSE, 0, bpw * 8 - 4, FALSE)
    /\ Start = HexEdit
    /\ Prev = HexEdit
    /\ Log = <<>>

\* The presses it takes to walk over the data and over one more word
WalkLength(h) == 2 * h.BufferValid + 2 * h.BytesPerWord + 2

\* NewCursorLine and NewCursorOffset of YoriWinHexEditCursorRight are not
\* initialised: they hold whatever the stack held
UninitCells == {Cell(0, 0), Cell(HexEdit.CursorLine + 1, HexEdit.CursorOffset + 1)}

Right ==
    \E Uninit \in UninitCells :
        LET Pressed == KeyRight(Begin(HexEdit), Uninit)
        IN  /\ Len(Log) < WalkLength(Start)
            /\ HexEdit' = Pressed.h
            /\ Prev' = HexEdit
            /\ Log' = Append(Log, Entry("Right", [Key |-> "VK_RIGHT"], Pressed.ok))
            /\ UNCHANGED Start

NextWalk == Right

SpecWalk == InitWalk /\ [][NextWalk]_vars

\* C6: pressing Right again and again from offset 0, bit shift
\* bytesPerWord*8-4, visits every nibble of the valid buffer once in
\* increasing order in the first 2 * valid presses, after which a press is
\* refused or leaves the cursor on the one-past-end position; the cursor never
\* goes past one-past-end.  Stated here for 1 byte words, where the nibbles
\* of the buffer are numbered 2 * offset for the high digit and
\* 2 * offset + 1 for the low one.
C6_RightWalk ==
    Start.BytesPerWord = 1 =>
        LET k == Len(Log)
            At == YoriWinHexEditGetCursorLocation(HexEdit)
            Nibble == 2 * At.BufferOffset + (4 - At.BitShift) \div 4
        IN  /\ At.ok
            /\ ~At.AsChar
            /\ k <= 2 * Start.BufferValid => Nibble = k
            /\ k > 2 * Start.BufferValid =>
                   (Last.Ret = FALSE \/ At.BufferOffset = Start.BufferValid)
            /\ At.BufferOffset <= Start.BufferValid

\* ------------------------------------------------------------------------
\* SpecStore: YoriWinHexEditEnsureBufferValid, then YoriWinHexEditDeleteData
\* ------------------------------------------------------------------------

InitStore ==
    /\ \E bpw \in BytesPerWordValues, ow \in OffsetWidthValues, n \in 0..MaxData :
           HexEdit = Configured(bpw, ow, TestData(n), FALSE, 0, bpw * 8 - 4, FALSE)
    /\ Start = HexEdit
    /\ Prev = HexEdit
    /\ Log = <<>>

EnsureBufferValid ==
    \E NewBufferLength \in (HexEdit.BufferValid + 1)..(HexEdit.BufferValid + MaxGrow),
       MallocOk \in BOOLEAN :
        LET Called == YoriWinHexEditEnsureBufferValid(Begin(HexEdit), NewBufferLength, MallocOk)
        IN  /\ Log = <<>>
            /\ HexEdit' = Called.h
            /\ Prev' = HexEdit
            /\ Log' = Append(Log, Entry("EnsureBufferValid",
                                        [NewBufferLength |-> NewBufferLength, MallocOk |-> MallocOk],
                                        Called.ok))
            /\ UNCHANGED Start

DeleteData ==
    \E DataOffset \in 0..HexEdit.BufferValid, Length \in 0..(HexEdit.BufferValid + 1) :
        LET Called == YoriWinHexEditDeleteData(Begin(HexEdit), DataOffset, Length)
        IN  /\ Log # <<>>
            /\ Last.Type = "EnsureBufferValid"
            /\ HexEdit' = Called.h
            /\ Prev' = HexEdit
            /\ Log' = Append(Log, Entry("DeleteData",
                                        [DataOffset |-> DataOffset, Length |-> Length],
                                        Called.ok))
            /\ UNCHANGED Start

\* The lengths asked for: within the allocation, up to MaxGrow bytes above
\* it, and the two on either side of the longest allocation there is
EnsureBufferLength ==
    /\ Len(Log) < 2
    /\ HexEdit.BufferAllocated <= MaxData + MaxGrow + BufferPadding
    /\ \E NewBufferLength \in
              {0} \cup (HexEdit.BufferAllocated..(HexEdit.BufferAllocated + MaxGrow))
                  \cup {DWORD_MAX - BufferPadding - 1, DWORD_MAX - BufferPadding},
          MallocOk \in BOOLEAN :
           LET Called == YoriWinHexEditEnsureBufferLength(Begin(HexEdit), NewBufferLength,
                                                          MallocOk)
           IN  /\ HexEdit' = Called.h
               /\ Prev' = HexEdit
               /\ Log' = Append(Log, Entry("EnsureBufferLength",
                                           [NewBufferLength |-> NewBufferLength,
                                            MallocOk |-> MallocOk],
                                           Called.ok))
               /\ UNCHANGED Start

NextStore == EnsureBufferValid \/ DeleteData \/ EnsureBufferLength

SpecStore == InitStore /\ [][NextStore]_vars

\* ensureValid(N) succeeded with N above the valid length, and deleteRange
\* was called next
EnsuredThenDeleted ==
    /\ Len(Log) = 2
    /\ Log[1].Type = "EnsureBufferValid"
    /\ Log[1].Arg.NewBufferLength > Start.BufferValid
    /\ Log[1].Ret
    /\ Log[2].Type = "DeleteData"

\* C9 as stated: for a buffer with valid = V and any N > V, ensureValid(N)
\* followed by deleteRange(0, N) returns valid to its original value with
\* the remaining bytes unchanged.
C9_EnsureThenDeleteFromZero ==
    (/\ EnsuredThenDeleted
     /\ Log[2].Arg.DataOffset = 0
     /\ Log[2].Arg.Length = Log[1].Arg.NewBufferLength)
    => /\ HexEdit.BufferValid = Start.BufferValid
       /\ HexEdit.Buffer = Start.Buffer

\* C9: for a buffer with valid = V and any N > V, ensureValid(N) followed by
\* deleteRange(V, N - V) returns valid to its original value with the
\* remaining bytes unchanged.
C9_EnsureThenDeleteTail ==
    (/\ EnsuredThenDeleted
     /\ Log[2].Arg.DataOffset = Start.BufferValid
     /\ Log[2].Arg.Length = Log[1].Arg.NewBufferLength - Start.BufferValid)
    => /\ Log[2].Ret
       /\ HexEdit.BufferValid = Start.BufferValid
       /\ HexEdit.Buffer = Start.Buffer

\* 00 01 02 grown to 5 valid bytes, then the 2 bytes from offset 3 deleted
C9_Witness ==
    /\ EnsuredThenDeleted
    /\ Start.Buffer = <<0, 1, 2>>
    /\ Log[1].Arg.NewBufferLength = 5
    /\ Prev.Buffer = <<0, 1, 2, 0, 0>>
    /\ Log[2].Arg = [DataOffset |-> 3, Length |-> 2]
    /\ HexEdit.Buffer = <<0, 1, 2>>

\* ------------------------------------------------------------------------
\* SpecSelect: a range selected and the selected data fetched
\* ------------------------------------------------------------------------

InitSelect ==
    /\ \E bpw \in BytesPerWordValues, n \in 0..MaxData :
           HexEdit = Configured(bpw, 0, TestData(n), FALSE, 0, bpw * 8 - 4, FALSE)
    /\ Start = HexEdit
    /\ Prev = HexEdit
    /\ Log = <<>>

\* Log holds the calls made since the selection was last set, the last two
\* of them at most
Recent(l) == IF Len(l) > 2 THEN Tail(l) ELSE l

SetSelectionRange ==
    \E FirstByteOffset \in 0..HexEdit.BufferValid, LastByteOffset \in 0..HexEdit.BufferValid :
        LET Called == YoriWinHexEditSetSelectionRange(Begin(HexEdit), FirstByteOffset, LastByteOffset)
        IN  /\ HexEdit' = Called.h
            /\ Prev' = HexEdit
            /\ Log' = <<Entry("SetSelectionRange",
                              [FirstByteOffset |-> FirstByteOffset,
                               LastByteOffset |-> LastByteOffset],
                              Called.ok)>>
            /\ UNCHANGED Start

GetSelectedData ==
    \E MallocOk \in BOOLEAN :
        /\ HexEdit' = Begin(HexEdit)
        /\ Prev' = HexEdit
        /\ Log' = Recent(Append(Log, Entry("GetSelectedData", [MallocOk |-> MallocOk],
                             YoriWinHexEditGetSelectedData(Begin(HexEdit), MallocOk))))
        /\ UNCHANGED Start

NextSelect == SetSelectionRange \/ GetSelectedData

SpecSelect == InitSelect /\ [][NextSelect]_vars

\* The call before the last one
Before == Log[Len(Log) - 1]

\* selectRange(a, b) with a <= b < valid was called and getSelectedData next
SelectedThenFetched ==
    /\ Len(Log) >= 2
    /\ Before.Type = "SetSelectionRange"
    /\ Before.Arg.FirstByteOffset <= Before.Arg.LastByteOffset
    /\ Before.Arg.LastByteOffset < Prev.BufferValid
    /\ Last.Type = "GetSelectedData"
    /\ Last.Arg.MallocOk

\* C10: after SetSelectionRange(a, b) with a <= b < valid succeeds,
\* GetSelectedData returns a copy of exactly b - a + 1 bytes equal to
\* buffer[a..b], and the buffer is unchanged.
C10_SelectedData ==
    SelectedThenFetched =>
        /\ Before.Ret
        /\ Last.Ret.ok
        /\ Last.Ret.Defined
        /\ Last.Ret.DataLength = Before.Arg.LastByteOffset - Before.Arg.FirstByteOffset + 1
        /\ Len(Last.Ret.Data) = Last.Ret.DataLength
        /\ Last.Ret.Data = SubSeq(Start.Buffer, Before.Arg.FirstByteOffset + 1,
                                  Before.Arg.LastByteOffset + 1)
        /\ HexEdit.Buffer = Start.Buffer
        /\ HexEdit.BufferValid = Start.BufferValid

\* Bytes 1 to 2 of 00 01 02 03 selected and fetched
C10_Witness ==
    /\ SelectedThenFetched
    /\ Start.Buffer = <<0, 1, 2, 3>>
    /\ Before.Arg = [FirstByteOffset |-> 1, LastByteOffset |-> 2]
    /\ Before.Ret
    /\ Last.Ret.ok
    /\ Last.Ret.Data = <<1, 2>>

\* SetSelectionRange was the last call, with a bound at or above valid
RangeRejected ==
    /\ Len(Log) >= 1
    /\ Last.Type = "SetSelectionRange"
    /\ \/ Last.Arg.FirstByteOffset >= Prev.BufferValid
       \/ Last.Arg.LastByteOffset >= Prev.BufferValid

\* C11: SetSelectionRange(first, last) with first >= valid or last >= valid
\* returns failure and leaves the selection inactive: SelectionActive reports
\* FALSE, GetSelectedData fails and no byte is rendered as selected.
C11_RejectedRangeInactive ==
    RangeRejected =>
        /\ ~Last.Ret
        /\ ~YoriWinHexEditSelectionActive(HexEdit)
        /\ ~YoriWinHexEditGetSelectedData(HexEdit, TRUE).ok
        /\ \A Offset \in 0..(HexEdit.BufferValid + HexEdit.BytesPerLine) :
               ~YoriWinHexEditSelectionColor(HexEdit, Offset, FALSE)

\* ------------------------------------------------------------------------
\* SpecControl: the control under the events of the window system and the
\* calls of the host, in any order
\* ------------------------------------------------------------------------

\* A control the host has created, given focus and loaded with Data
Hosted(BytesPerWord, OffsetWidth, ReadOnly, Data) ==
    Begin(YoriWinHexEditSetDataNoCopy(
              GetFocus(YoriWinHexEditCreate(BytesPerWord, OffsetWidth, ReadOnly)),
              Data, Len(Data), Len(Data)))

\* The buffers the host loads: a short one and one of two lines and a byte
ControlLengths == {MaxData, 2 * YORI_LIB_HEXDUMP_BYTES_PER_LINE + 1}

InitControl ==
    /\ \E bpw \in BytesPerWordValues, ReadOnly \in BOOLEAN, n \in ControlLengths :
           HexEdit = Hosted(bpw, 0, ReadOnly, TestData(n))
    /\ Start = HexEdit
    /\ Prev = HexEdit
    /\ Log = <<>>

\* Log holds the last event or call; of the earlier ones it keeps the count
Forgotten == Entry("", <<>>, FALSE)
Latest(l, e) == [i \in 1..Len(l) |-> Forgotten] \o <<e>>

NavigationKeys ==
    {"VK_LEFT", "VK_RIGHT", "VK_HOME", "VK_END", "VK_UP", "VK_DOWN", "VK_PRIOR", "VK_NEXT"}
EditKeys == {"VK_INSERT", "VK_DELETE"}

\* The characters typed at the control: '4' and 'z'
ControlChars == {52, 122}

KeyDownEvents ==
    {KeyEvent(Key, "plain", 0, TRUE, TRUE) : Key \in NavigationKeys \cup EditKeys}
        \cup {KeyEvent("VK_DELETE", "enhanced", 0, TRUE, FALSE)}
        \cup {KeyEvent(Key, "ctrl", 0, TRUE, TRUE) : Key \in {"VK_HOME", "VK_END"}}
        \cup {KeyEvent("VK_OTHER", "plain", Char, TRUE, TRUE) : Char \in ControlChars}
        \cup {KeyEvent("VK_OTHER", "plain", 52, FALSE, TRUE),
              KeyEvent("VK_OTHER", "alt", 52, TRUE, TRUE)}

OnKeyDown ==
    \E Event \in KeyDownEvents :
        /\ Len(Log) < MaxSteps
        /\ HexEdit' = KeyDown(Begin(HexEdit), Event)
        /\ Prev' = HexEdit
        /\ Log' = Latest(Log, Entry("KeyDown", Event, TRUE))
        /\ UNCHANGED Start

OnKeyUp ==
    \E Char \in {52} :
        /\ Len(Log) < MaxSteps
        /\ HexEdit' = KeyUp(Begin(HexEdit), TRUE, Char, TRUE)
        /\ Prev' = HexEdit
        /\ Log' = Latest(Log, Entry("KeyUp", [Char |-> Char], TRUE))
        /\ UNCHANGED Start

OnMouseDown ==
    \E Location \in {Cell(0, 1), Cell(ClientHeight - 1, ClientWidth - 1)} :
        /\ Len(Log) < MaxSteps
        /\ HexEdit' = MouseDownInClient(Begin(HexEdit), Location.CharOffset, Location.Line)
        /\ Prev' = HexEdit
        /\ Log' = Latest(Log, Entry("MouseDown", Location, TRUE))
        /\ UNCHANGED Start

OnMouseWheel ==
    \E MoveUp \in BOOLEAN :
        /\ Len(Log) < MaxSteps
        /\ HexEdit' = MouseWheel(Begin(HexEdit), 1, MoveUp)
        /\ Prev' = HexEdit
        /\ Log' = Latest(Log, Entry("MouseWheel", [LinesToMove |-> 1, MoveUp |-> MoveUp], TRUE))
        /\ UNCHANGED Start

OnScroll ==
    \E ScrollValue \in {0, YoriWinHexEditLinesPopulated(HexEdit)} :
        /\ Len(Log) < MaxSteps
        /\ HexEdit' = YoriWinHexEditNotifyScrollChange(Begin(HexEdit), ScrollValue)
        /\ Prev' = HexEdit
        /\ Log' = Latest(Log, Entry("ScrollChange", [ScrollValue |-> ScrollValue], TRUE))
        /\ UNCHANGED Start

OnFocus ==
    /\ Len(Log) < MaxSteps
    /\ HexEdit' = IF HexEdit.HasFocus THEN LoseFocus(Begin(HexEdit)) ELSE GetFocus(Begin(HexEdit))
    /\ Prev' = HexEdit
    /\ Log' = Latest(Log, Entry("Focus", [HasFocus |-> ~HexEdit.HasFocus], TRUE))
    /\ UNCHANGED Start

\* The data the host inserts and replaces with: 'A', 'B'
HostData == <<65, 66>>

CallSetDataNoCopy ==
    \E n \in {1, YORI_LIB_HEXDUMP_BYTES_PER_LINE + 1} :
        /\ Len(Log) < MaxSteps
        /\ HexEdit' = YoriWinHexEditSetDataNoCopy(Begin(HexEdit), TestData(n), n, n)
        /\ Prev' = HexEdit
        /\ Log' = Latest(Log, Entry("SetDataNoCopy", [NewBufferAllocated |-> n, NewBufferValid |-> n], TRUE))
        /\ UNCHANGED Start

CallClear ==
    /\ Len(Log) < MaxSteps
    /\ HexEdit' = YoriWinHexEditClear(Begin(HexEdit))
    /\ Prev' = HexEdit
    /\ Log' = Latest(Log, Entry("Clear", <<>>, TRUE))
    /\ UNCHANGED Start

CallInsertData ==
    \E DataOffset \in {0, HexEdit.BufferValid}, MallocOk \in BOOLEAN :
        LET Called == YoriWinHexEditInsertData(Begin(HexEdit), DataOffset, HostData, MallocOk)
        IN  /\ MallocOk \/ DataOffset = 0
            /\ Len(Log) < MaxSteps
            /\ HexEdit' = Called.h
            /\ Prev' = HexEdit
            /\ Log' = Latest(Log, Entry("InsertData", [DataOffset |-> DataOffset, Data |-> HostData, MallocOk |-> MallocOk], Called.ok))
            /\ UNCHANGED Start

CallDeleteData ==
    \E DataOffset \in {0, HexEdit.BufferValid - 1} :
        LET Called == YoriWinHexEditDeleteData(Begin(HexEdit), DataOffset, HexEdit.BufferValid)
        IN  /\ DataOffset >= 0
            /\ Len(Log) < MaxSteps
            /\ HexEdit' = Called.h
            /\ Prev' = HexEdit
            /\ Log' = Latest(Log, Entry("DeleteData", [DataOffset |-> DataOffset, Length |-> HexEdit.BufferValid], Called.ok))
            /\ UNCHANGED Start

CallReplaceData ==
    \E DataOffset \in {0, HexEdit.BufferValid - 1} :
        LET Called == YoriWinHexEditReplaceData(Begin(HexEdit), DataOffset, HostData)
        IN  /\ DataOffset >= 0
            /\ Len(Log) < MaxSteps
            /\ HexEdit' = Called.h
            /\ Prev' = HexEdit
            /\ Log' = Latest(Log, Entry("ReplaceData", [DataOffset |-> DataOffset, Data |-> HostData], Called.ok))
            /\ UNCHANGED Start

CallSetSelectionRange ==
    \E Range \in {<<0, HexEdit.BufferValid - 1>>, <<1, 0>>, <<0, HexEdit.BufferValid>>} :
        LET Called == YoriWinHexEditSetSelectionRange(Begin(HexEdit), Range[1], Range[2])
        IN  /\ Range[2] >= 0
            /\ Len(Log) < MaxSteps
            /\ HexEdit' = Called.h
            /\ Prev' = HexEdit
            /\ Log' = Latest(Log, Entry("SetSelectionRange", [FirstByteOffset |-> Range[1], LastByteOffset |-> Range[2]], Called.ok))
            /\ UNCHANGED Start

CallSetBytesPerWord ==
    \E BytesPerWord \in {2, 3} :
        LET Called == YoriWinHexEditSetBytesPerWord(Begin(HexEdit), BytesPerWord)
        IN  /\ Len(Log) < MaxSteps
            /\ HexEdit' = Called.h
            /\ Prev' = HexEdit
            /\ Log' = Latest(Log, Entry("SetBytesPerWord", [BytesPerWord |-> BytesPerWord], Called.ok))
            /\ UNCHANGED Start

CallSetStyle ==
    \E NewStyle \in {{YORI_WIN_HEX_EDIT_STYLE_OFFSET},
                     {YORI_WIN_HEX_EDIT_STYLE_OFFSET, YORI_WIN_HEX_EDIT_STYLE_LARGE_OFFSET}} :
        LET Called == YoriWinHexEditSetStyle(Begin(HexEdit), NewStyle)
        IN  /\ Len(Log) < MaxSteps
            /\ HexEdit' = Called.h
            /\ Prev' = HexEdit
            /\ Log' = Latest(Log, Entry("SetStyle", [NewStyle |-> NewStyle], Called.ok))
            /\ UNCHANGED Start

CallSetViewportLocation ==
    \E Corner \in {Cell(0, 0), Cell(HexEdit.ViewportTop + 1, HexEdit.ViewportLeft + 1)} :
        /\ Len(Log) < MaxSteps
        /\ HexEdit' = YoriWinHexEditSetViewportLocation(Begin(HexEdit), Corner.CharOffset, Corner.Line)
        /\ Prev' = HexEdit
        /\ Log' = Latest(Log, Entry("SetViewportLocation", Corner, TRUE))
        /\ UNCHANGED Start

\* The host puts the cursor on a byte of the data or on the byte after it
CallSetCursorLocation ==
    \E AsChar \in BOOLEAN :
        LET BufferOffset == IF AsChar THEN HexEdit.BufferValid
                            ELSE ((HexEdit.BufferValid \div 2) \div HexEdit.BytesPerWord)
                                     * HexEdit.BytesPerWord
            Called == YoriWinHexEditSetCursorLocation(Begin(HexEdit), AsChar, BufferOffset, 0)
        IN  /\ Len(Log) < MaxSteps
            /\ HexEdit' = Called.h
            /\ Prev' = HexEdit
            /\ Log' = Latest(Log, Entry("SetCursorLocation", [AsChar |-> AsChar, BufferOffset |-> BufferOffset, BitShift |-> 0], Called.ok))
            /\ UNCHANGED Start

CallSetReadOnly ==
    /\ Len(Log) < MaxSteps
    /\ HexEdit' = YoriWinHexEditSetReadOnly(Begin(HexEdit), ~HexEdit.ReadOnly)
    /\ Prev' = HexEdit
    /\ Log' = Latest(Log, Entry("SetReadOnly", [NewReadOnlyState |-> ~HexEdit.ReadOnly], TRUE))
    /\ UNCHANGED Start

CallSetModifyState ==
    LET Called == YoriWinHexEditSetModifyState(Begin(HexEdit), FALSE)
    IN  /\ Len(Log) < MaxSteps
        /\ HexEdit' = Called.h
        /\ Prev' = HexEdit
        /\ Log' = Latest(Log, Entry("SetModifyState", [ModifyState |-> FALSE], Called.ok))
        /\ UNCHANGED Start

\* The functions the host subscribes to the moves of the cursor
HostCallbacks == {"CursorMoved", "CursorMovedToo"}

CallSetCursorMoveNotifyCallback ==
    \E NotifyCallback \in HostCallbacks :
        LET Called == YoriWinHexEditSetCursorMoveNotifyCallback(Begin(HexEdit), NotifyCallback)
        IN  /\ Len(Log) < MaxSteps
            /\ HexEdit' = Called.h
            /\ Prev' = HexEdit
            /\ Log' = Latest(Log, Entry("SetCursorMoveNotifyCallback",
                          [NotifyCallback |-> NotifyCallback], Called.ok))
            /\ UNCHANGED Start

NextControl ==
    \/ CallSetCursorMoveNotifyCallback
    \/ OnKeyDown
    \/ OnKeyUp
    \/ OnMouseDown
    \/ OnMouseWheel
    \/ OnScroll
    \/ OnFocus
    \/ CallSetDataNoCopy
    \/ CallClear
    \/ CallInsertData
    \/ CallDeleteData
    \/ CallReplaceData
    \/ CallSetSelectionRange
    \/ CallSetBytesPerWord
    \/ CallSetStyle
    \/ CallSetViewportLocation
    \/ CallSetCursorLocation
    \/ CallSetReadOnly
    \/ CallSetModifyState

SpecControl == InitControl /\ [][NextControl]_vars

\* The rows of the client area that no longer show what a paint pass would
\* draw in them: the lines affected since they were last drawn
StaleLines(h) ==
    {h.ViewportTop + RowIndex : RowIndex \in
        {r \in 0..(ClientHeight - 1) :
            h.Screen[r] # YoriWinHexEditPaintSingleLine(h, h.ViewportTop + r)}}

\* C12: between two paints the dirty range only grows.  Every line affected
\* since it was last drawn lies within [FirstDirtyLine, LastDirtyLine]; an
\* event or call that runs no paint pass neither raises FirstDirtyLine nor
\* lowers LastDirtyLine; and a paint pass leaves the range empty.
C12_DirtyRange ==
    /\ \A Line \in StaleLines(HexEdit) :
           HexEdit.FirstDirtyLine <= Line /\ Line <= HexEdit.LastDirtyLine
    /\ HexEdit.Paints = 0 =>
           /\ HexEdit.FirstDirtyLine <= Prev.FirstDirtyLine
           /\ HexEdit.LastDirtyLine >= Prev.LastDirtyLine
    /\ YoriWinHexEditPaint(HexEdit).FirstDirtyLine > YoriWinHexEditPaint(HexEdit).LastDirtyLine

\* C13: in every state the control reaches through keystrokes, mouse and
\* scroll events and the host's calls (insert, delete and replace data,
\* clear, set-data with an allocation at least the valid length), the
\* allocated length of the buffer is at least its valid length.
C13_AllocatedCoversValid == HexEdit.BufferAllocated >= HexEdit.BufferValid

\* The buffer was grown past what was allocated for it before the last step
C13_Witness ==
    /\ Log # <<>>
    /\ Last.Type \in {"KeyDown", "InsertData"}
    /\ HexEdit.BufferValid > Prev.BufferAllocated
    /\ HexEdit.BufferAllocated >= HexEdit.BufferValid

\* C14: in every state the control reaches, the line of the cursor is at
\* most the valid length divided by the bytes per line, rounded up; this
\* includes the states after DeleteData, Clear and SetDataNoCopy.
C14_CursorWithinData ==
    HexEdit.CursorLine * HexEdit.BytesPerLine
        <= HexEdit.BufferValid + HexEdit.BytesPerLine - 1

\* C15: whenever the selection is active its offsets satisfy
\* FirstByteOffset <= LastByteOffset < BufferValid; a selection that the
\* clearing or shrinking of the buffer (Clear, DeleteData, SetDataNoCopy, the
\* Delete key) would leave outside the data is inactive afterwards.
C15_SelectionWithinData ==
    YoriWinHexEditSelectionActive(HexEdit) =>
        /\ HexEdit.Selection.FirstByteOffset <= HexEdit.Selection.LastByteOffset
        /\ HexEdit.Selection.LastByteOffset < HexEdit.BufferValid

\* The last step was an event of the keyboard, the mouse or the scroll bar
\* delivered to a read only control
ReadOnlyEvent ==
    /\ Log # <<>>
    /\ Last.Type \in {"KeyDown", "KeyUp", "MouseDown", "MouseWheel", "ScrollChange"}
    /\ Prev.ReadOnly

\* C17: while the control is read only no key down, key up, mouse or scroll
\* event changes the bytes of the buffer, the valid length, the insert mode
\* or the modified flag; the navigation keys still move the cursor, exactly
\* as they do in a control that is not read only.
C17_ReadOnlyEvents ==
    ReadOnlyEvent =>
        /\ HexEdit.Buffer = Prev.Buffer
        /\ HexEdit.BufferValid = Prev.BufferValid
        /\ HexEdit.InsertMode = Prev.InsertMode
        /\ HexEdit.UserModified = Prev.UserModified
        /\ HexEdit.ReadOnly
        /\ (Last.Type = "KeyDown" /\ Last.Arg.VirtualKeyCode \in NavigationKeys) =>
               HexEdit = [KeyDown(Begin([Prev EXCEPT !.ReadOnly = FALSE]), Last.Arg)
                              EXCEPT !.ReadOnly = TRUE]

\* A navigation key moved the cursor of a read only control that has data
C17_Witness ==
    /\ ReadOnlyEvent
    /\ Last.Type = "KeyDown"
    /\ Last.Arg.VirtualKeyCode \in NavigationKeys
    /\ HexEdit.BufferValid > 0
    /\ Cell(HexEdit.CursorLine, HexEdit.CursorOffset) # Cell(Prev.CursorLine, Prev.CursorOffset)
    /\ HexEdit.Buffer = Prev.Buffer

\* ------------------------------------------------------------------------
\* SpecConfig: the host changes the bytes per word and the offset column
\* under a cursor placed on any byte
\* ------------------------------------------------------------------------

\* The byte of the buffer the cursor of h denotes, as YoriWinHexEditInsertCell
\* and YoriWinHexEditOverwriteCell find the byte to edit, and its nibble
CursorCell(h) == YoriWinHexEditCellType(h, h.CursorLine, h.CursorOffset)
CursorByte(h) ==
    h.CursorLine * h.BytesPerLine + CursorCell(h).ByteOffset + CursorCell(h).BitShift \div 8
CursorNibble(h) == CursorCell(h).BitShift % 8

\* The style that selects an offset column of OffsetWidth bits
StyleOf(OffsetWidth) ==
    IF OffsetWidth = 32 THEN {YORI_WIN_HEX_EDIT_STYLE_OFFSET}
    ELSE IF OffsetWidth = 64 THEN {YORI_WIN_HEX_EDIT_STYLE_LARGE_OFFSET}
    ELSE {}

\* The host creates the control, loads three lines of data and puts the
\* cursor on a nibble or on a character of one of the first bytes
InitConfig ==
    /\ \E bpw \in BytesPerWordValues, ow \in {0, 32, 64}, AsChar \in BOOLEAN,
          Byte \in 0..MaxCursorByte, Nibble \in {0, 4} :
           /\ AsChar => Nibble = 0
           /\ HexEdit = Begin(YoriWinHexEditSetCursorLocation(
                            Hosted(bpw, ow, FALSE, TestData(2 * YORI_LIB_HEXDUMP_BYTES_PER_LINE + 1)),
                            AsChar,
                            IF AsChar THEN Byte ELSE (Byte \div bpw) * bpw,
                            IF AsChar THEN 0 ELSE (Byte % bpw) * 8 + Nibble).h)
    /\ Start = HexEdit
    /\ Prev = HexEdit
    /\ Log = <<>>

ConfigSetBytesPerWord ==
    \E BytesPerWord \in BytesPerWordValues \ {HexEdit.BytesPerWord} :
        LET Called == YoriWinHexEditSetBytesPerWord(Begin(HexEdit), BytesPerWord)
        IN  /\ Len(Log) < MaxChanges
            /\ HexEdit' = Called.h
            /\ Prev' = HexEdit
            /\ Log' = Latest(Log, Entry("SetBytesPerWord", [BytesPerWord |-> BytesPerWord], Called.ok))
            /\ UNCHANGED Start

ConfigSetStyle ==
    \E OffsetWidth \in {0, 32, 64} \ {HexEdit.OffsetWidth} :
        LET Called == YoriWinHexEditSetStyle(Begin(HexEdit), StyleOf(OffsetWidth))
        IN  /\ Len(Log) < MaxChanges
            /\ HexEdit' = Called.h
            /\ Prev' = HexEdit
            /\ Log' = Latest(Log, Entry("SetStyle", [NewStyle |-> StyleOf(OffsetWidth)], Called.ok))
            /\ UNCHANGED Start

NextConfig == ConfigSetBytesPerWord \/ ConfigSetStyle

SpecConfig == InitConfig /\ [][NextConfig]_vars

\* C16: changing the bytes per word (between any two of 1, 2, 4, 8) or the
\* offset width (between any two of 0, 32, 64) leaves the cursor on the same
\* byte of the buffer and, in the hex region, on the same nibble of that byte.
C16_CursorKeepsByte ==
    Log # <<>> =>
        /\ Last.Ret
        /\ CursorCell(HexEdit).Type = CursorCell(Prev).Type
        /\ CursorByte(HexEdit) = CursorByte(Prev)
        /\ CursorNibble(HexEdit) = CursorNibble(Prev)

\* ------------------------------------------------------------------------
\* SpecData: the host inserts, replaces and deletes ranges of data
\* ------------------------------------------------------------------------

\* The ranges of data the host hands over: none, 'A', and 'A', 'B'
HostRanges == {<<>>, <<65>>, HostData}

\* A control just created, or one loaded with up to MaxData bytes
InitData ==
    /\ \E bpw \in {1, 4}, n \in 0..MaxData :
           HexEdit = IF n = 0 THEN Begin(GetFocus(YoriWinHexEditCreate(bpw, 0, FALSE)))
                     ELSE Hosted(bpw, 0, FALSE, TestData(n))
    /\ Start = HexEdit
    /\ Prev = HexEdit
    /\ Log = <<>>

DataInsert ==
    \E DataOffset \in 0..(HexEdit.BufferValid + 1), Data \in HostRanges, MallocOk \in BOOLEAN :
        LET Called == YoriWinHexEditInsertData(Begin(HexEdit), DataOffset, Data, MallocOk)
        IN  /\ Len(Log) < MaxCalls
            /\ HexEdit' = Called.h
            /\ Prev' = HexEdit
            /\ Log' = Latest(Log, Entry("InsertData",
                          [DataOffset |-> DataOffset, Data |-> Data, MallocOk |-> MallocOk],
                          Called.ok))
            /\ UNCHANGED Start

DataReplace ==
    \E DataOffset \in 0..(HexEdit.BufferValid + 1), Data \in HostRanges :
        LET Called == YoriWinHexEditReplaceData(Begin(HexEdit), DataOffset, Data)
        IN  /\ Len(Log) < MaxCalls
            /\ HexEdit' = Called.h
            /\ Prev' = HexEdit
            /\ Log' = Latest(Log, Entry("ReplaceData",
                          [DataOffset |-> DataOffset, Data |-> Data], Called.ok))
            /\ UNCHANGED Start

DataDelete ==
    \E DataOffset \in 0..HexEdit.BufferValid, Length \in 0..(HexEdit.BufferValid + 1) :
        LET Called == YoriWinHexEditDeleteData(Begin(HexEdit), DataOffset, Length)
        IN  /\ Len(Log) < MaxCalls
            /\ HexEdit' = Called.h
            /\ Prev' = HexEdit
            /\ Log' = Latest(Log, Entry("DeleteData",
                          [DataOffset |-> DataOffset, Length |-> Length], Called.ok))
            /\ UNCHANGED Start

NextData == DataInsert \/ DataReplace \/ DataDelete

SpecData == InitData /\ [][NextData]_vars

\* The last call was of Type
Called(Type) == Log # <<>> /\ Last.Type = Type

\* C18: InsertData(offset, bytes, len) succeeds for every offset within or
\* at the end of the valid data (0 <= offset <= valid, the end of the data
\* and the empty buffer included) when memory is to be had, and leaves the
\* buffer old[0..offset) ++ bytes ++ old[offset..valid) with the valid
\* length increased by len.
C18_InsertAnywhere ==
    (Called("InsertData") /\ Last.Arg.DataOffset <= Prev.BufferValid /\ Last.Arg.MallocOk) =>
        /\ Last.Ret
        /\ HexEdit.Buffer = SubSeq(Prev.Buffer, 1, Last.Arg.DataOffset) \o Last.Arg.Data
                              \o SubSeq(Prev.Buffer, Last.Arg.DataOffset + 1, Prev.BufferValid)
        /\ HexEdit.BufferValid = Prev.BufferValid + Len(Last.Arg.Data)

\* C19: ReplaceData(offset, bytes, len) fails when offset + len exceeds the
\* valid length and then changes nothing of the control; when it succeeds
\* the bytes at [offset, offset + len) are the new ones, every other byte is
\* as before, and the valid and the allocated length are unchanged (beyond
\* the buffer a successful call only marks lines for repainting).
C19_ReplaceInPlace ==
    Called("ReplaceData") =>
        /\ Last.Ret = (Last.Arg.DataOffset + Len(Last.Arg.Data) <= Prev.BufferValid)
        /\ ~Last.Ret => HexEdit = Begin(Prev)
        /\ Last.Ret =>
               /\ HexEdit.BufferValid = Prev.BufferValid
               /\ HexEdit.BufferAllocated = Prev.BufferAllocated
               /\ Len(HexEdit.Buffer) = Len(Prev.Buffer)
               /\ \A i \in 1..Len(Prev.Buffer) :
                      HexEdit.Buffer[i] =
                          IF i > Last.Arg.DataOffset
                               /\ i <= Last.Arg.DataOffset + Len(Last.Arg.Data)
                          THEN Last.Arg.Data[i - Last.Arg.DataOffset]
                          ELSE Prev.Buffer[i]
               /\ HexEdit = [Begin(Prev) EXCEPT !.Buffer = HexEdit.Buffer,
                                                !.FirstDirtyLine = HexEdit.FirstDirtyLine,
                                                !.LastDirtyLine = HexEdit.LastDirtyLine]

\* Two bytes in the middle of the data were replaced
C19_Witness ==
    /\ Called("ReplaceData")
    /\ Last.Ret
    /\ Last.Arg.Data = HostData
    /\ Last.Arg.DataOffset = 1
    /\ Prev.BufferValid = 4
    /\ HexEdit.Buffer = <<Prev.Buffer[1], 65, 66, Prev.Buffer[4]>>

\* The number of bytes the last DeleteData had to remove
Removed == Min(Last.Arg.Length, Prev.BufferValid - Last.Arg.DataOffset)

\* C20: DeleteData(offset, len) with offset below the valid length removes
\* exactly min(len, valid - offset) bytes: the bytes below offset are
\* unchanged, the bytes above the deleted window follow them in order, and
\* the valid length decreases by exactly that count.
C20_DeleteWindow ==
    (Called("DeleteData") /\ Last.Arg.DataOffset < Prev.BufferValid) =>
        /\ Last.Ret
        /\ HexEdit.BufferValid = Prev.BufferValid - Removed
        /\ Len(HexEdit.Buffer) = HexEdit.BufferValid
        /\ \A i \in 1..HexEdit.BufferValid :
               HexEdit.Buffer[i] = IF i <= Last.Arg.DataOffset
                                   THEN Prev.Buffer[i]
                                   ELSE Prev.Buffer[i + Removed]

\* One byte was deleted from the middle of the data, and bytes followed it
C20_Witness ==
    /\ Called("DeleteData")
    /\ Last.Ret
    /\ Last.Arg.DataOffset = 1
    /\ Last.Arg.Length = 1
    /\ Prev.BufferValid = 4
    /\ HexEdit.Buffer = <<Prev.Buffer[1], Prev.Buffer[3], Prev.Buffer[4]>>

\* ------------------------------------------------------------------------
\* The keys, the callback and the paint passes of the control specification
\* ------------------------------------------------------------------------

\* The last step was the key down event of Key, with no modifier or enhanced
Pressed(Key) ==
    /\ Log # <<>>
    /\ Last.Type = "KeyDown"
    /\ Last.Arg.CtrlMask \in {"plain", "enhanced"}
    /\ Last.Arg.VirtualKeyCode = Key

\* C21: after the control has handled the key down event of an arrow key,
\* Home, End, PageUp, PageDown, Insert or Delete, the selection is inactive.
C21_KeysClearSelection ==
    (\E Key \in NavigationKeys \cup EditKeys : Pressed(Key)) =>
        ~YoriWinHexEditSelectionActive(HexEdit)

\* What the navigation function behind the key of Event returns, and the
\* control it leaves, when called on h
Navigate(h, Event) ==
    LET Key == Event.VirtualKeyCode
    IN  IF Event.CtrlMask = "ctrl"
        THEN IF Key = "VK_HOME" THEN YoriWinHexEditCursorCtrlHome(h)
             ELSE YoriWinHexEditCursorCtrlEnd(h)
        ELSE IF Key = "VK_LEFT" THEN YoriWinHexEditCursorLeft(h, Event.Uninit)
        ELSE IF Key = "VK_RIGHT" THEN YoriWinHexEditCursorRight(h, Event.Uninit)
        ELSE IF Key = "VK_HOME" THEN YoriWinHexEditCursorHome(h)
        ELSE IF Key = "VK_END" THEN YoriWinHexEditCursorEnd(h)
        ELSE IF Key = "VK_UP" THEN YoriWinHexEditCursorUp(h)
        ELSE IF Key = "VK_DOWN" THEN YoriWinHexEditCursorDown(h)
        ELSE IF Key = "VK_PRIOR" THEN YoriWinHexEditPageUp(h)
        ELSE YoriWinHexEditPageDown(h)

\* The last step was the key down event of a navigation key
Navigated ==
    /\ Log # <<>>
    /\ Last.Type = "KeyDown"
    /\ \/ Last.Arg.CtrlMask = "plain" /\ Last.Arg.VirtualKeyCode \in NavigationKeys
       \/ Last.Arg.CtrlMask = "ctrl" /\ Last.Arg.VirtualKeyCode \in {"VK_HOME", "VK_END"}

\* The cursor, the viewport, the data and the selection of h and g agree
SameView(h, g) ==
    /\ h.CursorLine = g.CursorLine
    /\ h.CursorOffset = g.CursorOffset
    /\ h.ViewportTop = g.ViewportTop
    /\ h.ViewportLeft = g.ViewportLeft
    /\ h.Buffer = g.Buffer
    /\ h.BufferValid = g.BufferValid
    /\ h.Selection = g.Selection

\* C22: a navigation key that does not move the cursor (Left at the start of
\* the buffer, Right at the end, Up on line 0, Down on the last line, Home,
\* End, Ctrl+Home and Ctrl+End at their target, PageUp and PageDown at an
\* edge) reports that nothing moved and changes nothing: cursor, viewport,
\* buffer, valid length and selection are as before.  Delete pressed with
\* the cursor beyond the valid data changes nothing either.
C22_NotMovedNoChange ==
    /\ (Navigated /\ HexEdit.CursorLine = Prev.CursorLine
                  /\ HexEdit.CursorOffset = Prev.CursorOffset) =>
           /\ ~Navigate(Begin(Prev), Last.Arg).ok
           /\ SameView(HexEdit, Prev)
    /\ (Pressed("VK_DELETE") /\ CursorCell(Prev).BeyondBufferEnd) => SameView(HexEdit, Prev)

\* The last step moved the cursor to another display cell
CursorMoved ==
    /\ Log # <<>>
    /\ Cell(HexEdit.CursorLine, HexEdit.CursorOffset) # Cell(Prev.CursorLine, Prev.CursorOffset)

\* C23: with a cursor move callback registered, every event or call that
\* changes the display cell of the cursor (its line or its column) invokes
\* the callback exactly once, with the buffer offset and the bit shift of
\* the new cell, and one that leaves the cell alone does not invoke it; a
\* second registration is refused and leaves the first subscriber in place.
C23_CallbackOncePerMove ==
    (Log # <<>> /\ Prev.CursorMoveCallback # NULL) =>
        /\ HexEdit.CursorMoveCallback = Prev.CursorMoveCallback
        /\ Last.Type = "SetCursorMoveNotifyCallback" => ~Last.Ret
        /\ ~CursorMoved => HexEdit.LastNotify.Calls = 0
        /\ CursorMoved =>
               HexEdit.LastNotify =
                   [Calls |-> 1,
                    Callback |-> Prev.CursorMoveCallback,
                    BufferOffset |-> HexEdit.CursorLine * HexEdit.BytesPerLine
                                         + CursorCell(HexEdit).ByteOffset,
                    BitShift |-> CursorCell(HexEdit).BitShift]

\* The subscriber, registered after the control was created, was called once
\* for a move of the cursor to a cell past the first byte
C23_Witness ==
    /\ CursorMoved
    /\ Start.CursorMoveCallback = NULL
    /\ Prev.CursorMoveCallback = "CursorMoved"
    /\ HexEdit.LastNotify.Calls = 1
    /\ HexEdit.LastNotify.Callback = "CursorMoved"
    /\ HexEdit.LastNotify.BufferOffset > 0

\* The last step was an input event of the window system
InputEvent ==
    /\ Log # <<>>
    /\ Last.Type \in {"KeyDown", "KeyUp", "MouseDown", "MouseWheel", "ScrollChange", "Focus"}

\* C24: handling a single input event (key down, key up, mouse down, mouse
\* wheel, scroll bar change, focus gained or lost) runs at most one paint
\* pass.
C24_OnePaintPerEvent == InputEvent => HexEdit.Paints <= 1

\* A key moved the cursor out of the viewport: the one paint pass of the
\* event drew the lines the viewport moved to
C24_Witness ==
    /\ InputEvent
    /\ Last.Type = "KeyDown"
    /\ HexEdit.ViewportTop # Prev.ViewportTop
    /\ HexEdit.Paints = 1
    /\ HexEdit.Screen # Prev.Screen

\* ------------------------------------------------------------------------
\* The cell of a character, in the coordinate specification
\* ------------------------------------------------------------------------

\* The last call was YoriWinHexEditCellFromCharBufferOffset
CharCellFound == Log # <<>> /\ Last.Type = "CellFromCharBufferOffset"

\* The cells of the hex region of a line
HexRegionWidth(h) ==
    (h.BytesPerLine \div h.BytesPerWord) * YoriWinHexEditGetCellsPerWord(h)

\* C25 as stated: cellFromCharOffset(bufferOffset) returns the line
\* bufferOffset / bytesPerLine and the column offsetColumnWidth +
\* hexRegionWidth + 1 + (bufferOffset % bytesPerLine), where
\* offsetColumnWidth is 0, 9 or 18 for the offset widths 0, 32 and 64.
C25_CharCellColumn ==
    CharCellFound =>
        /\ Last.Ret.Line = Last.Arg.BufferOffset \div HexEdit.BytesPerLine
        /\ Last.Ret.CharOffset =
               (IF HexEdit.OffsetWidth = 32 THEN 9 ELSE IF HexEdit.OffsetWidth = 64 THEN 18 ELSE 0)
                   + HexRegionWidth(HexEdit) + 1
                   + (Last.Arg.BufferOffset % HexEdit.BytesPerLine)

\* C25: cellFromCharOffset(bufferOffset) returns the line bufferOffset /
\* bytesPerLine and the column offsetColumnWidth + hexRegionWidth + 1 +
\* (bufferOffset % bytesPerLine), where offsetColumnWidth counts the space
\* that follows a displayed offset: 0, 10 or 19 for the offset widths 0, 32
\* and 64.
C25_CharCellColumnAfterSpace ==
    CharCellFound =>
        /\ Last.Ret.Line = Last.Arg.BufferOffset \div HexEdit.BytesPerLine
        /\ Last.Ret.CharOffset =
               (IF HexEdit.OffsetWidth = 32 THEN 10 ELSE IF HexEdit.OffsetWidth = 64 THEN 19 ELSE 0)
                   + HexRegionWidth(HexEdit) + 1
                   + (Last.Arg.BufferOffset % HexEdit.BytesPerLine)

\* The character of byte 37 with a 32 bit offset column and 2 byte words:
\* line 2, column 10 + 40 + 1 + 5
C25_Witness ==
    /\ CharCellFound
    /\ HexEdit.BytesPerWord = 2
    /\ HexEdit.OffsetWidth = 32
    /\ Last.Arg.BufferOffset = 37
    /\ Last.Ret = Cell(2, 56)

\* ------------------------------------------------------------------------
\* The Delete key, in the control specification
\* ------------------------------------------------------------------------

\* The last step was the Delete key, pressed in a control that takes edits
\* with the cursor on a cell of Type
Deleted(Type) ==
    /\ Pressed("VK_DELETE")
    /\ ~Prev.ReadOnly
    /\ CursorCell(Prev).Type = Type

\* Byte with the nibble at Shift (0 or 4) set to 0
WithoutNibble(Byte, Shift) == IF Shift = 4 THEN Byte % 16 ELSE (Byte \div 16) * 16

\* C26: for every bytesPerWord in {1, 2, 4, 8}, Delete pressed with the
\* cursor on a HexDigit cell of valid data at a nonzero bit shift s sets
\* exactly the addressed nibble (bits s..s+3 of the word: the nibble of the
\* byte at offset + s/8) to 0, leaves every other nibble of the buffer as it
\* was and leaves the valid length unchanged.
C26_DeleteClearsNibble ==
    (Deleted(CellTypeHexDigit) /\ ~CursorCell(Prev).BeyondBufferEnd
         /\ CursorCell(Prev).BitShift # 0) =>
        /\ HexEdit.BufferValid = Prev.BufferValid
        /\ HexEdit.Buffer =
               [i \in 1..Prev.BufferValid |->
                   IF i = CursorByte(Prev) + 1
                   THEN WithoutNibble(Prev.Buffer[i], CursorNibble(Prev))
                   ELSE Prev.Buffer[i]]

\* The offset of the word or character under the cursor of h
CursorOffsetOf(h) == h.CursorLine * h.BytesPerLine + CursorCell(h).ByteOffset

\* The buffer of h without the Count bytes at Offset, or without those of
\* them that it holds
Without(h, Offset, Count) ==
    SubSeq(h.Buffer, 1, Offset)
        \o SubSeq(h.Buffer, Offset + Min(Count, h.BufferValid - Offset) + 1, h.BufferValid)

\* C27: Delete pressed with the cursor on a HexDigit cell at bit shift 0
\* removes the whole word at the cursor (bytesPerWord bytes, or the bytes
\* that remain of a partial last word), the bytes after it shifting down; on
\* a CharValue cell it removes exactly one byte; and with the cursor on a
\* position beyond the valid data it changes neither the buffer, nor the
\* valid length, nor the cursor.
C27_DeleteRemoves ==
    /\ (Deleted(CellTypeHexDigit) /\ ~CursorCell(Prev).BeyondBufferEnd
            /\ CursorCell(Prev).BitShift = 0) =>
           /\ HexEdit.Buffer = Without(Prev, CursorOffsetOf(Prev), Prev.BytesPerWord)
           /\ HexEdit.BufferValid = Len(HexEdit.Buffer)
    /\ (Deleted(CellTypeCharValue) /\ ~CursorCell(Prev).BeyondBufferEnd) =>
           /\ HexEdit.Buffer = Without(Prev, CursorOffsetOf(Prev), 1)
           /\ HexEdit.BufferValid = Prev.BufferValid - 1
    /\ (\E Type \in {CellTypeHexDigit, CellTypeCharValue} :
            Deleted(Type) /\ CursorCell(Prev).BeyondBufferEnd) =>
           /\ HexEdit.Buffer = Prev.Buffer
           /\ HexEdit.BufferValid = Prev.BufferValid
           /\ ~CursorMoved

\* Delete on the last digit of a word of several bytes removed the word, and
\* bytes followed it
C27_Witness ==
    /\ Deleted(CellTypeHexDigit)
    /\ CursorCell(Prev).BitShift = 0
    /\ Prev.BytesPerWord > 1
    /\ Prev.BufferValid > CursorOffsetOf(Prev) + Prev.BytesPerWord
    /\ HexEdit.BufferValid = Prev.BufferValid - Prev.BytesPerWord
    /\ HexEdit.Buffer[CursorOffsetOf(Prev) + 1]
           = Prev.Buffer[CursorOffsetOf(Prev) + Prev.BytesPerWord + 1]

\* C29: PageUp and PageDown move both the top of the viewport and the line
\* of the cursor by clientHeight lines, clamped at the start and the end of
\* the buffer, and leave the column of the cursor alone; at the edge (cursor
\* on line 0 for PageUp, viewport.top + clientHeight >= linesPopulated for
\* PageDown) they report that nothing moved and change neither the viewport
\* nor the cursor.
C29_PageMovesViewAndCursor ==
    LET LinesPopulated == YoriWinHexEditLinesPopulated(Prev)
        PageMoved == Navigate(Begin(Prev), Last.Arg).ok
    IN  /\ Pressed("VK_PRIOR") =>
               /\ HexEdit.CursorOffset = Prev.CursorOffset
               /\ HexEdit.ViewportLeft = Prev.ViewportLeft
               /\ IF Prev.CursorLine = 0
                  THEN ~PageMoved /\ SameView(HexEdit, Prev)
                  ELSE /\ PageMoved
                       /\ HexEdit.ViewportTop =
                              IF Prev.ViewportTop >= ClientHeight
                              THEN Prev.ViewportTop - ClientHeight ELSE 0
                       /\ HexEdit.CursorLine =
                              IF Prev.CursorLine >= ClientHeight
                              THEN Prev.CursorLine - ClientHeight ELSE 0
        /\ Pressed("VK_NEXT") =>
               /\ HexEdit.CursorOffset = Prev.CursorOffset
               /\ HexEdit.ViewportLeft = Prev.ViewportLeft
               /\ IF Prev.ViewportTop + ClientHeight >= LinesPopulated
                  THEN ~PageMoved /\ SameView(HexEdit, Prev)
                  ELSE /\ PageMoved
                       /\ HexEdit.ViewportTop = Prev.ViewportTop + ClientHeight
                       /\ HexEdit.CursorLine =
                              Min(Prev.CursorLine + ClientHeight, LinesPopulated - 1)

\* PageDown took the viewport a screen down and the cursor, a line short of
\* a screen from the end, to the last line
C29_Witness ==
    /\ Pressed("VK_NEXT")
    /\ HexEdit.ViewportTop = Prev.ViewportTop + ClientHeight
    /\ HexEdit.CursorLine = YoriWinHexEditLinesPopulated(Prev) - 1
    /\ HexEdit.CursorLine < Prev.CursorLine + ClientHeight
    /\ HexEdit.CursorLine > Prev.CursorLine

\* ------------------------------------------------------------------------
\* SpecView: the viewport is brought back to a cursor it was moved away from
\* ------------------------------------------------------------------------

\* The host loads MaxViewLine lines and a byte, puts the cursor on a byte and
\* scrolls the viewport, which YoriWinHexEditSetViewportLocation lets it move
\* to where the cursor is not
InitView ==
    /\ \E bpw \in {1, 8}, AsChar \in BOOLEAN, Line \in 0..MaxViewLine,
          Left \in {0, ClientWidth - 1, 2 * ClientWidth + 5}, Top \in 0..MaxViewLine :
           HexEdit = Begin(YoriWinHexEditSetViewportLocation(
                         YoriWinHexEditSetCursorLocation(
                             Hosted(bpw, 0, FALSE,
                                    TestData(MaxViewLine * YORI_LIB_HEXDUMP_BYTES_PER_LINE + 1)),
                             AsChar, Line * YORI_LIB_HEXDUMP_BYTES_PER_LINE, 0).h,
                         Left, Top))
    /\ Start = HexEdit
    /\ Prev = HexEdit
    /\ Log = <<>>

EnsureCursorVisible ==
    /\ Log = <<>>
    /\ HexEdit' = YoriWinHexEditEnsureCursorVisible(Begin(HexEdit))
    /\ Prev' = HexEdit
    /\ Log' = <<Entry("EnsureCursorVisible", <<>>, TRUE)>>
    /\ UNCHANGED Start

\* The scroll bar reports a position, which is at most the number of lines
ScrollChange ==
    \E ScrollValue \in 0..YoriWinHexEditLinesPopulated(HexEdit) :
        /\ Log = <<>>
        /\ HexEdit' = YoriWinHexEditNotifyScrollChange(Begin(HexEdit), ScrollValue)
        /\ Prev' = HexEdit
        /\ Log' = <<Entry("ScrollChange", [ScrollValue |-> ScrollValue], TRUE)>>
        /\ UNCHANGED Start

NextView == EnsureCursorVisible \/ ScrollChange

SpecView == InitView /\ [][NextView]_vars

\* Where a viewport edge at Edge, showing Size cells, has to be for the
\* cell At to show with the least movement
Nearest(Edge, Size, At) ==
    IF At < Edge THEN At
    ELSE IF At >= Edge + Size THEN At - Size + 1
    ELSE Edge

\* C28: after ensureCursorVisible the cursor is inside the viewport
\* (viewport.left <= cursor column < viewport.left + clientWidth and
\* viewport.top <= cursor line < viewport.top + clientHeight); the viewport
\* is unchanged where the cursor was inside already, and otherwise moves by
\* the least amount (left = column, or left = column - clientWidth + 1;
\* likewise for the top); and any change of the viewport marks the lines
\* from the new top onward dirty.
C28_CursorBroughtIntoView ==
    Called("EnsureCursorVisible") =>
        /\ HexEdit.ViewportLeft <= HexEdit.CursorOffset
        /\ HexEdit.CursorOffset < HexEdit.ViewportLeft + ClientWidth
        /\ HexEdit.ViewportTop <= HexEdit.CursorLine
        /\ HexEdit.CursorLine < HexEdit.ViewportTop + ClientHeight
        /\ HexEdit.ViewportLeft = Nearest(Prev.ViewportLeft, ClientWidth, Prev.CursorOffset)
        /\ HexEdit.ViewportTop = Nearest(Prev.ViewportTop, ClientHeight, Prev.CursorLine)
        /\ (HexEdit.ViewportLeft # Prev.ViewportLeft \/ HexEdit.ViewportTop # Prev.ViewportTop) =>
               /\ HexEdit.FirstDirtyLine <= HexEdit.ViewportTop
               /\ HexEdit.LastDirtyLine = DWORD_MAX
        /\ (HexEdit.ViewportLeft = Prev.ViewportLeft /\ HexEdit.ViewportTop = Prev.ViewportTop) =>
               HexEdit = Begin(Prev)

\* The cursor was below and to the right of the viewport, which moved down
\* and right by the least amount
C28_Witness ==
    /\ Called("EnsureCursorVisible")
    /\ Prev.CursorLine >= Prev.ViewportTop + ClientHeight
    /\ Prev.CursorOffset >= Prev.ViewportLeft + ClientWidth
    /\ HexEdit.ViewportTop = Prev.CursorLine - ClientHeight + 1
    /\ HexEdit.ViewportLeft = Prev.CursorOffset - ClientWidth + 1
    /\ HexEdit.FirstDirtyLine = HexEdit.ViewportTop

\* C30: a change driven by the scroll bar leaves viewport.top within
\* [0, max(0, linesPopulated - clientHeight)], moves the line of the cursor
\* only when it falls outside the new viewport, and then to the nearest edge
\* line of the viewport, and never changes the column of the cursor.
C30_ScrollKeepsCursorInView ==
    LET LinesPopulated == YoriWinHexEditLinesPopulated(Prev)
        Top == HexEdit.ViewportTop
    IN  Called("ScrollChange") =>
            /\ 0 <= Top
            /\ Top <= (IF LinesPopulated > ClientHeight
                       THEN LinesPopulated - ClientHeight ELSE 0)
            /\ HexEdit.CursorOffset = Prev.CursorOffset
            /\ HexEdit.CursorLine # Prev.CursorLine =>
                   \/ Prev.CursorLine < Top /\ HexEdit.CursorLine = Top
                   \/ /\ Prev.CursorLine >= Top + ClientHeight
                      /\ HexEdit.CursorLine = Top + ClientHeight - 1

\* The scroll bar took the viewport up, and the cursor left below it came
\* up to its last line
C30_Witness ==
    /\ Called("ScrollChange")
    /\ HexEdit.ViewportTop = Last.Arg.ScrollValue
    /\ HexEdit.ViewportTop < Prev.ViewportTop
    /\ Prev.CursorLine >= HexEdit.ViewportTop + ClientHeight
    /\ HexEdit.CursorLine = HexEdit.ViewportTop + ClientHeight - 1
    /\ HexEdit.CursorOffset = Prev.CursorOffset

\* The last step was the key down event of Key with Ctrl held
PressedCtrl(Key) ==
    /\ Log # <<>>
    /\ Last.Type = "KeyDown"
    /\ Last.Arg.CtrlMask = "ctrl"
    /\ Last.Arg.VirtualKeyCode = Key

\* C31: Ctrl+Home moves the cursor to buffer offset 0 and Ctrl+End to the end
\* of the buffer, and the cursor stays in its region: in the hex region
\* Ctrl+Home lands on bit shift bytesPerWord*8-4 of the first word and
\* Ctrl+End on bit shift 0 of the word at valid rounded down to a word
\* boundary; in the character region they land on byte 0 and on byte valid.
C31_CtrlHomeEndKeepRegion ==
    LET Was == CursorCell(Prev).Type
        Now == CursorCell(HexEdit)
    IN  /\ (PressedCtrl("VK_HOME") /\ Was = CellTypeHexDigit) =>
               /\ Now.Type = CellTypeHexDigit
               /\ CursorOffsetOf(HexEdit) = 0
               /\ Now.BitShift = Prev.BytesPerWord * 8 - 4
        /\ (PressedCtrl("VK_HOME") /\ Was = CellTypeCharValue) =>
               /\ Now.Type = CellTypeCharValue
               /\ CursorOffsetOf(HexEdit) = 0
        /\ (PressedCtrl("VK_END") /\ Was = CellTypeHexDigit) =>
               /\ Now.Type = CellTypeHexDigit
               /\ CursorOffsetOf(HexEdit) =
                      (Prev.BufferValid \div Prev.BytesPerWord) * Prev.BytesPerWord
               /\ Now.BitShift = 0
        /\ (PressedCtrl("VK_END") /\ Was = CellTypeCharValue) =>
               /\ Now.Type = CellTypeCharValue
               /\ CursorOffsetOf(HexEdit) = Prev.BufferValid

\* Ctrl+Home took the cursor from a later word of the hex region to the
\* high nibble of the first word
C31_Witness ==
    /\ PressedCtrl("VK_HOME")
    /\ CursorCell(Prev).Type = CellTypeHexDigit
    /\ CursorOffsetOf(Prev) > 0
    /\ Prev.BytesPerWord > 1
    /\ CursorOffsetOf(HexEdit) = 0
    /\ CursorCell(HexEdit).BitShift = Prev.BytesPerWord * 8 - 4

\* ------------------------------------------------------------------------
\* SpecPaint: the cells of a line as YoriWinHexEditPaintSingleLine lays them
\* out
\* ------------------------------------------------------------------------

\* A CHAR_INFO of the line being built.  Char is what it shows: the value of
\* a hex digit, or a character.  Kind, Byte and BitShift say what put it
\* there: for a "digit" the offset in the line of its word and the shift
\* that brought the digit out of the word, for a "char" the offset in the
\* line of its byte.
CharInfo(Char, Kind, Byte, BitShift) ==
    [Char |-> Char, Kind |-> Kind, Byte |-> Byte, BitShift |-> BitShift]

\* YoriLibHexDigitFromValue(WordToDisplay >> Shift), WordToDisplay being the
\* sum of the bytes of the word below BytesToDisplay, each shifted to its
\* place
WordDigit(h, Offset, WordIndex, BytesToDisplay, Shift) ==
    LET ByteIndex == WordIndex * h.BytesPerWord + Shift \div 8
    IN  IF ByteIndex < BytesToDisplay
        THEN (h.Buffer[Offset + ByteIndex + 1] \div (IF Shift % 8 = 4 THEN 16 ELSE 1)) % 16
        ELSE 0

\* What YoriWinHexEditByteLine, YoriWinHexEditWordLine,
\* YoriWinHexEditDWordLine and YoriWinHexEditDWordLongLine write for one
\* word: its digits from the highest down and a space, with a backtick between
\* the halves of an 8 byte word; or, where the line has no byte of the word,
\* sizeof(WordToDisplay) * 2 + 1 spaces
WordCells(h, Offset, WordIndex, BytesToDisplay) ==
    LET Digits == 2 * h.BytesPerWord
        Digit(Shift) == CharInfo(WordDigit(h, Offset, WordIndex, BytesToDisplay, Shift),
                                 "digit", WordIndex * h.BytesPerWord, Shift)
    IN  IF WordIndex * h.BytesPerWord < BytesToDisplay
        THEN IF h.BytesPerWord = 8
             THEN [i \in 1..8 |-> Digit(4 * (Digits - i))]
                      \o <<CharInfo("backtick", "separator", 0, 0)>>
                      \o [i \in 1..8 |-> Digit(4 * (8 - i))]
                      \o <<CharInfo(" ", "separator", 0, 0)>>
             ELSE [i \in 1..Digits |-> Digit(4 * (Digits - i))]
                      \o <<CharInfo(" ", "separator", 0, 0)>>
        ELSE [i \in 1..(Digits + 1) |-> CharInfo(" ", "blank", 0, 0)]

\* The words of a line, one after the other.  The CharInfoBuffer is long
\* enough for every layout, so the OutputSize tests never cut a line short.
RECURSIVE DataLine(_, _, _, _)
DataLine(h, Offset, BytesToDisplay, WordCount) ==
    IF WordCount = 0 THEN <<>>
    ELSE DataLine(h, Offset, BytesToDisplay, WordCount - 1)
             \o WordCells(h, Offset, WordCount - 1, BytesToDisplay)

\* YoriLibSPrintfS of the offset of the line: eight digits, a colon and a
\* space, after eight digits of the high part and a backtick when the offset
\* is 64 bits wide
OffsetString(h, Offset) ==
    LET Low == [i \in 1..8 |-> CharInfo((Offset \div 16^(8 - i)) % 16, "offset", 0, 0)]
        Colon == <<CharInfo(":", "offset", 0, 0), CharInfo(" ", "offset", 0, 0)>>
    IN  IF h.OffsetWidth = 64
        THEN [i \in 1..8 |-> CharInfo(0, "offset", 0, 0)]
                 \o <<CharInfo("backtick", "offset", 0, 0)>> \o Low \o Colon
        ELSE IF h.OffsetWidth = 32 THEN Low \o Colon
        ELSE <<>>

\* The CharInfoBuffer YoriWinHexEditPaintSingleLine builds for a line that
\* has data: the offset, the words, a space and the characters.  An
\* unprintable character is shown as a dot; the bytes loaded are told apart
\* by value, not by glyph, so Char keeps the byte.
CharInfoBuffer(h, LineIndex) ==
    LET Offset == LineIndex * h.BytesPerLine
        LineLength == IF h.BufferValid - Offset < h.BytesPerLine
                      THEN h.BufferValid - Offset
                      ELSE h.BytesPerLine
    IN  OffsetString(h, Offset)
            \o DataLine(h, Offset, LineLength, h.BytesPerLine \div h.BytesPerWord)
            \o <<CharInfo(" ", "separator", 0, 0)>>
            \o [i \in 1..h.BytesPerLine |->
                   IF i - 1 < LineLength
                   THEN CharInfo(h.Buffer[Offset + i], "char", i - 1, 0)
                   ELSE CharInfo(" ", "blank", 0, 0)]

\* The host creates the control and loads up to MaxPainted bytes
InitPaint ==
    /\ \E bpw \in BytesPerWordValues, ow \in OffsetWidthValues, n \in 1..MaxPainted :
           HexEdit = Hosted(bpw, ow, FALSE, TestData(n))
    /\ Start = HexEdit
    /\ Prev = HexEdit
    /\ Log = <<>>

\* A line that has data is painted
PaintSingleLine ==
    \E LineIndex \in 0..(YoriWinHexEditLinesPopulated(HexEdit) - 1) :
        /\ Log = <<>>
        /\ Log' = <<Entry("PaintSingleLine", [LineIndex |-> LineIndex],
                          CharInfoBuffer(HexEdit, LineIndex))>>
        /\ UNCHANGED <<HexEdit, Start, Prev>>

NextPaint == PaintSingleLine

SpecPaint == InitPaint /\ [][NextPaint]_vars

\* The bytes of the line painted last
PaintedBytes ==
    Min(HexEdit.BufferValid - Last.Arg.LineIndex * HexEdit.BytesPerLine, HexEdit.BytesPerLine)

\* C32: for every bytesPerWord in {1,2,4,8}, every offsetWidth and every
\* line, a last line with fewer than bytesPerLine valid bytes included, the
\* row drawn keeps to the columns of the coordinate model: the character of
\* byte k is drawn at the column cellFromCharOffset gives for k, and every
\* hex digit drawn sits on the column that classifyCell maps to its byte and
\* nibble.
C32_RowAlignsWithCells ==
    Called("PaintSingleLine") =>
        /\ \A k \in 0..(PaintedBytes - 1) :
               LET At == YoriWinHexEditCellFromCharBufferOffset(
                             HexEdit, Last.Arg.LineIndex * HexEdit.BytesPerLine + k)
               IN  /\ At.Line = Last.Arg.LineIndex
                   /\ At.CharOffset + 1 <= Len(Last.Ret)
                   /\ Last.Ret[At.CharOffset + 1].Kind = "char"
                   /\ Last.Ret[At.CharOffset + 1].Byte = k
        /\ \A c \in 1..Len(Last.Ret) :
               Last.Ret[c].Kind = "digit" =>
                   LET Found == YoriWinHexEditCellType(HexEdit, Last.Arg.LineIndex, c - 1)
                   IN  /\ Found.Type = CellTypeHexDigit
                       /\ Found.ByteOffset = Last.Ret[c].Byte
                       /\ Found.BitShift = Last.Ret[c].BitShift

\* C33: typing a character that is not a hex digit (0-9, a-f, A-F) with the
\* cursor on a HexDigit cell, or any character with the cursor on an Offset
\* or Whitespace cell, changes nothing, in insert and in overwrite mode: the
\* bytes of the buffer, valid, allocated, the cursor and the modified flag
\* stay as they were.
C33_IgnoredCharChangesNothing ==
    (/\ Called("KeyChar")
     /\ \/ PrevCell.Type = CellTypeHexDigit /\ HexDigitValue(Last.Arg.Char) < 0
        \/ PrevCell.Type \in {CellTypeOffset, CellTypeWhitespace})
    => /\ HexEdit.Buffer = Prev.Buffer
       /\ HexEdit.BufferValid = Prev.BufferValid
       /\ HexEdit.BufferAllocated = Prev.BufferAllocated
       /\ HexEdit.CursorLine = Prev.CursorLine
       /\ HexEdit.CursorOffset = Prev.CursorOffset
       /\ HexEdit.UserModified = Prev.UserModified

\* C34: ensureAllocated(n) does nothing when allocated >= n; otherwise, when
\* it succeeds, allocated is exactly n + 16384 and the valid bytes and valid
\* are as they were; and it fails only when the allocation fails, which
\* every request with n + 16384 at or above the largest DWORD does, leaving
\* the buffer, allocated and valid as they were.
C34_EnsureBufferLength ==
    LET n == Last.Arg.NewBufferLength
        TooLong == n + BufferPadding >= DWORD_MAX
    IN  Called("EnsureBufferLength") =>
            IF Prev.BufferAllocated >= n
            THEN Last.Ret /\ HexEdit = Begin(Prev)
            ELSE /\ Last.Ret = (Last.Arg.MallocOk /\ ~TooLong)
                 /\ Last.Ret =>
                        /\ HexEdit.BufferAllocated = n + BufferPadding
                        /\ HexEdit.Buffer = Prev.Buffer
                        /\ HexEdit.BufferValid = Prev.BufferValid
                        /\ ~HexEdit.BufferIsNull
                 /\ ~Last.Ret => HexEdit = Begin(Prev)

\* A buffer of valid bytes with none to spare was grown by a byte and the
\* padding
C34_Witness ==
    /\ Called("EnsureBufferLength")
    /\ Last.Ret
    /\ Prev.BufferValid = MaxData
    /\ Prev.BufferAllocated = MaxData
    /\ Last.Arg.NewBufferLength = MaxData + 1
    /\ HexEdit.BufferAllocated = MaxData + 1 + BufferPadding
    /\ HexEdit.Buffer = Prev.Buffer

\* The last step was a key that edits at the cursor, a character or Delete,
\* pressed in a control that takes edits
KeystrokeEdit == (Pressed("VK_OTHER") \/ Pressed("VK_DELETE")) /\ ~Prev.ReadOnly

\* The control as the edit function behind that key leaves it, before the
\* viewport follows the cursor and the paint: YoriWinHexEditDelete or
\* YoriWinHexEditAddChar, applied to the control with no selection and no
\* line dirty
AfterEdit ==
    LET Clean == [Begin(Prev) EXCEPT !.Selection.Active = FALSE,
                                     !.FirstDirtyLine = DWORD_MAX,
                                     !.LastDirtyLine = 0]
    IN  IF Pressed("VK_DELETE") THEN YoriWinHexEditDelete(Clean, Last.Arg.ShiftWraps)
        ELSE YoriWinHexEditAddChar(Clean, Last.Arg.Char, Last.Arg.MallocOk)

\* The edit changed a byte or the valid length
EditChanged == AfterEdit.Buffer # Prev.Buffer \/ AfterEdit.BufferValid # Prev.BufferValid

\* C35 as stated: every keystroke edit (overwrite, insert or delete at the
\* cursor) that changes the buffer extends the dirty range to cover at least
\* the edited line, and whenever the edit changed valid the dirty range
\* extends from the edited line to the end of the buffer (lastDirtyLine at
\* its maximum) before the next paint.
C35_EditMarksDirty ==
    KeystrokeEdit =>
        /\ EditChanged =>
               /\ AfterEdit.FirstDirtyLine <= Prev.CursorLine
               /\ AfterEdit.LastDirtyLine >= Prev.CursorLine
        /\ AfterEdit.BufferValid # Prev.BufferValid =>
               AfterEdit.LastDirtyLine = DWORD_MAX

\* C35: every keystroke edit that changes the buffer extends the dirty range
\* to cover at least the edited line; whenever an insert or a delete changed
\* valid the dirty range extends from the edited line to the end of the
\* buffer, and an overwrite that extended the buffer marks the lines from
\* the edited line to the line the cursor moves to.
C35_EditMarksDirtyByMode ==
    KeystrokeEdit =>
        /\ EditChanged =>
               /\ AfterEdit.FirstDirtyLine <= Prev.CursorLine
               /\ AfterEdit.LastDirtyLine >= Prev.CursorLine
        /\ (AfterEdit.BufferValid # Prev.BufferValid
                /\ (Pressed("VK_DELETE") \/ Prev.InsertMode)) =>
               AfterEdit.LastDirtyLine = DWORD_MAX
        /\ (AfterEdit.BufferValid # Prev.BufferValid
                /\ Pressed("VK_OTHER") /\ ~Prev.InsertMode) =>
               /\ AfterEdit.LastDirtyLine >= AfterEdit.CursorLine
               /\ AfterEdit.LastDirtyLine # DWORD_MAX

\* A hex digit typed in insert mode on the first digit of a word made room
\* for the word, and every line from the cursor on is dirty
C35_Witness ==
    /\ Pressed("VK_OTHER")
    /\ ~Prev.ReadOnly
    /\ Prev.InsertMode
    /\ Prev.BufferValid > 0
    /\ AfterEdit.BufferValid = Prev.BufferValid + Prev.BytesPerWord
    /\ AfterEdit.FirstDirtyLine = Prev.CursorLine
    /\ AfterEdit.LastDirtyLine = DWORD_MAX

\* ------------------------------------------------------------------------
\* SpecInput: the control under the events of the user alone
\* ------------------------------------------------------------------------

NextInput ==
    \/ OnKeyDown
    \/ OnKeyUp
    \/ OnMouseDown
    \/ OnMouseWheel
    \/ OnScroll
    \/ OnFocus

SpecInput == InitControl /\ [][NextInput]_vars

\* C36: after any sequence of key and mouse events (End or Ctrl+End followed
\* by typing in insert mode included, with any bytesPerWord), every byte a
\* keystroke edit writes lies at an index below valid as valid stands when
\* the edit completes, hence below allocated and never through an absent
\* buffer: no edit writes outside the valid data.
C36_EditWritesWithinValid ==
    (Log # <<>> /\ Last.Type \in {"KeyDown", "KeyUp"}) => HexEdit.Stray = NoStray

\* C37: after any sequence of key, mouse and scroll events on a buffer that
\* only those events change, the byte the cursor addresses is at most one
\* past the end of the data: line * bytesPerLine + byteOffset + bitShift / 8
\* <= valid.
C37_CursorByteWithinData == CursorByte(HexEdit) <= HexEdit.BufferValid

C39_EventLeavesScreenCurrent ==
    (InputEvent /\ StaleLines(Prev) = {}) => StaleLines(HexEdit) = {}

\* C40: the modified flag is sound for keyboard input.  Start is a state
\* with the flag FALSE, as SetModifyState(FALSE) leaves it; after any
\* sequence of typed characters that follows, a flag that is still FALSE
\* means the bytes of the buffer and the valid length are those of Start.
C40_FlagFalseMeansUntouched ==
    ~HexEdit.UserModified =>
        /\ HexEdit.BufferValid = Start.BufferValid
        /\ HexEdit.Buffer = Start.Buffer

====
